---- MODULE Spec2Model ----
(***************************************************************************)
(* Model of the Plumber data-engineering assistant's tool logic:           *)
(*   - the parameter validators of the Dataflow and Dataproc-template      *)
(*     agents,                                                             *)
(*   - the Dataflow job-name sanitizer,                                    *)
(*   - the Dataflow template launcher (submit_dataflow_template),          *)
(*   - the Cloud Logging query tools of the monitoring agent,              *)
(*   - the Dataproc template launcher (run_dataproc_template),             *)
(*   - the listing tools for Dataflow jobs and Dataproc batches,           *)
(*   - the pipeline launcher (create_pipeline_from_scratch).               *)
(* Every tool is a stateless function of its arguments and of what the     *)
(* external services answer; each component keeps the arguments of the     *)
(* call under study and the call's outcome in one variable.                *)
(***************************************************************************)
EXTENDS Integers, Sequences, FiniteSets, TLC

VARIABLES validator, sanitizer, submit, logs, template_run, listing, pipeline, runner, storage, cluster

vars == <<validator, sanitizer, submit, logs, template_run, listing, pipeline, runner, storage, cluster>>

(***************************************************************************)
(* Generic helpers                                                         *)
(***************************************************************************)
Range(s) == {s[i] : i \in DOMAIN s}

SeqsUpTo(S, n) == UNION {[1..k -> S] : k \in 0..n}

Min(a, b) == IF a <= b THEN a ELSE b

\* Sequences without repeated elements (the key lists of Python dicts).
IsInjective(s) == \A i, j \in DOMAIN s : s[i] = s[j] => i = j

(***************************************************************************)
(* Python values the validators receive.  A value that should be a list    *)
(* or a dict may be None or of another type; kind tells which.             *)
(***************************************************************************)
PyList(elems) == [kind |-> "list", elems |-> elems]

PyNone == [kind |-> "NoneType", elems |-> <<>>]

\* A template definition: a dict holding a subset of the keys 'required'
\* and 'optional', or a value that is no dict at all.
TemplateDict(keys, req, opt) ==
    [kind |-> "dict", keys |-> keys, required |-> req, optional |-> opt]

NonDict(kind) ==
    [kind |-> kind, keys |-> {}, required |-> PyList(<<>>), optional |-> PyList(<<>>)]

\* A user-input mapping: a dict as the ordered sequence of its (key, value)
\* items, or a value that is no dict.
InputDict(items) == [kind |-> "dict", items |-> items]

NonDictInput(kind) == [kind |-> kind, items |-> <<>>]

Keys(items) == {items[i][1] : i \in DOMAIN items}

(***************************************************************************)
(* Outcome of a call: either a returned value or a propagated exception.   *)
(***************************************************************************)
NoComment == [text |-> "", invalid |-> {}, valid |-> <<>>, missing |-> {}, err |-> <<>>]

NoResult == [validation_result |-> "", comment |-> NoComment]

Returned(v) == [called |-> TRUE, raised |-> FALSE, exc |-> <<>>, value |-> v]

Raised(e) == [called |-> TRUE, raised |-> TRUE, exc |-> e, value |-> NoResult]

NotCalled == [called |-> FALSE, raised |-> FALSE, exc |-> <<>>, value |-> NoResult]

\* Python's messages for the errors the validators can hit.
NoAttribute(kind, attr) == <<kind, "object has no attribute", attr>>

BadConcat(left, right) ==
    IF left = "list"
    THEN <<"can only concatenate list (not", right, ") to list">>
    ELSE <<"unsupported operand type(s) for +:", left, right>>

(***************************************************************************)
(* Parameter validators                                                    *)
(***************************************************************************)
\* dict.get(key, []) of the template definition.
GetList(template_definition, key) ==
    IF key \in template_definition.keys
    THEN (IF key = "required" THEN template_definition.required
                              ELSE template_definition.optional)
    ELSE PyList(<<>>)

\* The first exception the common prologue of both validators raises, or <<>>:
\* the two .get calls, the list concatenation, then user_inputs.keys().
ValidationError(template_definition, user_inputs) ==
    IF template_definition.kind # "dict"
    THEN NoAttribute(template_definition.kind, "get")
    ELSE LET required_params == GetList(template_definition, "required")
             optional_params == GetList(template_definition, "optional")
         IN  IF required_params.kind # "list" \/ optional_params.kind # "list"
             THEN BadConcat(required_params.kind, optional_params.kind)
             ELSE IF user_inputs.kind # "dict"
                  THEN NoAttribute(user_inputs.kind, "keys")
                  ELSE <<>>

Failed(comment) == [validation_result |-> "failed", comment |-> comment]

Passed == [validation_result |-> "success",
           comment |-> [NoComment EXCEPT !.text = "Validation Passed"]]

\* A variant that forgets the check of the required parameters.
DataflowValidateNoRequiredCheck(template_definition, user_inputs) ==
    LET err == ValidationError(template_definition, user_inputs)
    IN  IF err # <<>> THEN Raised(err)
        ELSE
        LET all_defined_params == GetList(template_definition, "required").elems
                                  \o GetList(template_definition, "optional").elems
            invalid_params == Keys(user_inputs.items) \ Range(all_defined_params)
        IN  IF invalid_params # {}
            THEN Returned(Failed([NoComment EXCEPT
                     !.text = "Invalid param(s) passed: {invalid}. Valid params are: {valid}",
                     !.invalid = invalid_params, !.valid = all_defined_params]))
            ELSE Returned(Passed)

\* The body of the try block of the Dataflow agent's validate_input_params.
DataflowValidateBody(template_definition, user_inputs) ==
    LET err == ValidationError(template_definition, user_inputs)
    IN  IF err # <<>> THEN Raised(err)
        ELSE
        LET required_params == GetList(template_definition, "required").elems
            optional_params == GetList(template_definition, "optional").elems
            all_defined_params == required_params \o optional_params
            user_param_keys == Keys(user_inputs.items)
            invalid_params == user_param_keys \ Range(all_defined_params)
            missing_required == Range(required_params) \ user_param_keys
        IN  IF invalid_params # {}
            THEN Returned(Failed([NoComment EXCEPT
                     !.text = "Invalid param(s) passed: {invalid}. Valid params are: {valid}",
                     !.invalid = invalid_params, !.valid = all_defined_params]))
            ELSE IF missing_required # {}
            THEN Returned(Failed([NoComment EXCEPT
                     !.text = "Missing required param(s): {missing}",
                     !.missing = missing_required]))
            ELSE Returned(Passed)

\* A variant without the except clause: the error propagates.
DataflowValidateNoExcept(template_definition, user_inputs) ==
    DataflowValidateBody(template_definition, user_inputs)

\* validate_input_params of the Dataflow agent: the body under try/except.
dataflow_validate_input_params(template_definition, user_inputs) ==
    LET out == DataflowValidateBody(template_definition, user_inputs)
    IN  IF out.raised
        THEN Returned(Failed([NoComment EXCEPT
                 !.text = "An unexpected error occurred during validation - {err}",
                 !.err = out.exc]))
        ELSE out

\* The body of the try block of the Dataproc-template agent's validator.
DataprocValidateBody(template_params, input_params) ==
    LET err == ValidationError(template_params, input_params)
    IN  IF err # <<>> THEN Raised(err)
        ELSE
        LET required_template_params == GetList(template_params, "required").elems
            optional_template_params == GetList(template_params, "optional").elems
            all_params == required_template_params \o optional_template_params
            input_params_name == Keys(input_params.items)
            invalid_input_params == input_params_name \ Range(all_params)
            all_required_params == Range(required_template_params) \subseteq input_params_name
        IN  IF invalid_input_params # {}
            THEN Returned(Failed([NoComment EXCEPT !.text = "Invalid param passed"]))
            ELSE IF ~all_required_params
            THEN Returned(Failed([NoComment EXCEPT !.text = "Missing required params"]))
            ELSE Returned(Passed)

\* validate_input_params of the Dataproc-template agent.
dataproc_validate_input_params(template_params, input_params) ==
    LET out == DataprocValidateBody(template_params, input_params)
    IN  IF out.raised
        THEN Returned(Failed([NoComment EXCEPT
                 !.text = "Error while running validation - {err}",
                 !.err = out.exc]))
        ELSE out

(***************************************************************************)
(* Strings are sequences of one-character strings.                         *)
(***************************************************************************)
LowerChars == <<"a", "b", "c", "d", "e", "f", "g", "h", "i", "j", "k", "l", "m", "n", "o", "p", "q", "r", "s", "t", "u", "v", "w", "x", "y", "z">>

UpperChars == <<"A", "B", "C", "D", "E", "F", "G", "H", "I", "J", "K", "L", "M", "N", "O", "P", "Q", "R", "S", "T", "U", "V", "W", "X", "Y", "Z">>

DigitChars == {"0", "1", "2", "3", "4", "5", "6", "7", "8", "9"}

LowerSet == Range(LowerChars)

UpperSet == Range(UpperChars)

\* str.lower() on one character; characters without a lowercase stay.
LowerOf == [c \in UpperSet |-> LowerChars[CHOOSE i \in DOMAIN UpperChars : UpperChars[i] = c]]

LowerChar(c) == IF c \in UpperSet THEN LowerOf[c] ELSE c

\* str.upper() on one character.
UpperOf == [c \in LowerSet |-> UpperChars[CHOOSE i \in DOMAIN LowerChars : LowerChars[i] = c]]

UpperChar(c) == IF c \in LowerSet THEN UpperOf[c] ELSE c

StrLower(str) == [i \in DOMAIN str |-> LowerChar(str[i])]

StrUpper(str) == [i \in DOMAIN str |-> UpperChar(str[i])]

IsAlpha(c) == c \in LowerSet \/ c \in UpperSet

IsAlnum(c) == IsAlpha(c) \/ c \in DigitChars

(***************************************************************************)
(* Job-name sanitizer                                                      *)
(***************************************************************************)
MaxJobNameLen == 63

UuidPrefixLen == 8

\* The characters of the class [a-z0-9-].
JobNameChars == LowerSet \cup DigitChars \cup {"-"}

\* re.sub(r'[^a-z0-9-]', '-', s)
ReplaceInvalid(str) ==
    [i \in DOMAIN str |-> IF str[i] \in JobNameChars THEN str[i] ELSE "-"]

\* re.sub(r'-+', '-', s): every run of hyphens becomes one hyphen.
RECURSIVE CollapseHyphens(_)
CollapseHyphens(str) ==
    IF Len(str) <= 1 THEN str
    ELSE IF str[1] = "-" /\ str[2] = "-" THEN CollapseHyphens(Tail(str))
    ELSE <<str[1]>> \o CollapseHyphens(Tail(str))

\* str.lstrip(chars) and str.rstrip(chars)
RECURSIVE LStrip(_, _)
LStrip(str, chars) ==
    IF str # <<>> /\ str[1] \in chars THEN LStrip(Tail(str), chars) ELSE str

RECURSIVE RStrip(_, _)
RStrip(str, chars) ==
    IF str # <<>> /\ str[Len(str)] \in chars
    THEN RStrip(SubSeq(str, 1, Len(str) - 1), chars) ELSE str

\* s.strip('-')
StripHyphens(str) == RStrip(LStrip(str, {"-"}), {"-"})

\* s[:n]
Prefix(str, n) == SubSeq(str, 1, Min(n, Len(str)))

JobPrefix == <<"j", "o", "b", "-">>

\* A variant that strips the hyphens before it replaces and collapses.
SanitizeStripFirst(name, uuid_hex) ==
    LET stripped == CollapseHyphens(ReplaceInvalid(StripHyphens(StrLower(name))))
    IN  IF stripped = <<>>
        THEN JobPrefix \o Prefix(uuid_hex, UuidPrefixLen)
        ELSE LET prefixed == IF ~IsAlpha(stripped[1]) THEN JobPrefix \o stripped
                                                       ELSE stripped
                 trimmed == IF ~IsAlnum(prefixed[Len(prefixed)])
                            THEN SubSeq(prefixed, 1, Len(prefixed) - 1)
                            ELSE prefixed
             IN  Prefix(trimmed, MaxJobNameLen)

\* A variant that makes every name unique with the random suffix.
SanitizeWithSuffix(name, uuid_hex) ==
    Prefix(StripHyphens(CollapseHyphens(ReplaceInvalid(StrLower(name))))
           \o JobPrefix \o Prefix(uuid_hex, UuidPrefixLen), MaxJobNameLen)

\* _sanitize_job_name(name); uuid_hex is what uuid.uuid4().hex gives this call.
_sanitize_job_name(name, uuid_hex) ==
    LET lowered == StrLower(name)
        replaced == ReplaceInvalid(lowered)
        collapsed == CollapseHyphens(replaced)
        stripped == StripHyphens(collapsed)
    IN  IF stripped = <<>>
        THEN JobPrefix \o Prefix(uuid_hex, UuidPrefixLen)
        ELSE LET prefixed == IF ~IsAlpha(stripped[1]) THEN JobPrefix \o stripped
                                                       ELSE stripped
                 trimmed == IF ~IsAlnum(prefixed[Len(prefixed)])
                            THEN SubSeq(prefixed, 1, Len(prefixed) - 1)
                            ELSE prefixed
             IN  Prefix(trimmed, MaxJobNameLen)

(***************************************************************************)
(* Dataflow template launcher: submit_dataflow_template                    *)
(***************************************************************************)
\* sub in str
Contains(str, sub) ==
    \E i \in 1..(Len(str) - Len(sub) + 1) : SubSeq(str, i, i + Len(sub) - 1) = sub

FlexSegment == <<"/", "f", "l", "e", "x", "/">>

\* A parsed template descriptor: a dict holding a subset of the keys
\* template_gcs_path, type and params.
Descriptor(keys, path, type, params) ==
    [keys |-> keys, template_gcs_path |-> path, type |-> type, params |-> params]

\* What json.loads gives for a JSON text: a dict (elems holds it), a list of
\* dicts, or a JSONDecodeError for a text that is no JSON.
JsonDict(d) == [kind |-> "dict", elems |-> <<d>>]

JsonList(ds) == [kind |-> "list", elems |-> ds]

JsonInvalid == [kind |-> "invalid", elems |-> <<>>]

NoCommand == [prog |-> "", job |-> "", opts |-> <<>>]

Exception(type, text) == [type |-> type, text |-> text, cmd |-> NoCommand, returncode |-> 0]

\* str(CalledProcessError): "Command '<cmd>' returned non-zero exit status <n>."
CalledProcessError(cmd, returncode) ==
    [type |-> "CalledProcessError",
     text |-> <<"Command", "{cmd}", "returned non-zero exit status", "{returncode}">>,
     cmd |-> cmd, returncode |-> returncode]

NoException == Exception("", <<>>)

NoRun == [launched |-> FALSE, returncode |-> 0, stdout |-> "", stderr |-> ""]

\* The dict a call of the tool returns: keys tells which entries it has.
SubmitFailed(text, detail, err) ==
    [keys |-> {"status", "comment"}, status |-> "failed", stdout |-> "",
     comment |-> [text |-> text, detail |-> detail, err |-> err]]

SubmitSucceeded(stdout) ==
    [keys |-> {"status", "stdout", "comment"}, status |-> "success", stdout |-> stdout,
     comment |-> [text |-> "Job Submitted Successfully", detail |-> NoComment,
                  err |-> NoException]]

NoSubmitResult ==
    [keys |-> {}, status |-> "", stdout |-> "",
     comment |-> [text |-> "", detail |-> NoComment, err |-> NoException]]

\* "###".join([f"{key}={value}" ...]) prefixed with "^###^", as tokens.
RECURSIVE JoinParams(_, _)
JoinParams(items, delemeter) ==
    IF items = <<>> THEN <<>>
    ELSE <<items[1][1], "=", items[1][2]>>
         \o (IF Len(items) > 1 THEN <<delemeter>> ELSE <<>>)
         \o JoinParams(Tail(items), delemeter)

\* A variant that joins the pairs with the CLI's default separator.
ParametersStrComma(items) == <<"^", "###", "^">> \o JoinParams(items, ",")

ParametersStr(items) ==
    LET delemeter == "###"
    IN  <<"^", delemeter, "^">> \o JoinParams(items, delemeter)

Opt(name, val) == [opt |-> name, val |-> val]

\* A variant that looks at the path only.
IsFlexPathOnly(template_gcs_path, template_definition_dict) ==
    Contains(template_gcs_path, FlexSegment)

\* is_flex = "/flex/" in template_gcs_path or template_definition_dict.get("type") == "FLEX"
\* (the descriptor is looked at only when the path has no "/flex/").
IsFlex(template_gcs_path, template_definition_dict) ==
    \/ Contains(template_gcs_path, FlexSegment)
    \/ /\ template_definition_dict.kind = "dict"
       /\ "type" \in template_definition_dict.elems[1].keys
       /\ template_definition_dict.elems[1].type = "FLEX"

\* A variant that names the path of a Flex template as the classic one does.
FlexCommandAsClassic(job_name, gcp_project, region, template_gcs_path, parameters_str) ==
    [prog |-> "gcloud dataflow flex-template run", job |-> job_name,
     opts |-> << Opt("--project", <<gcp_project>>),
                 Opt("--region", <<region>>),
                 Opt("--gcs-location", template_gcs_path),
                 Opt("--parameters", parameters_str),
                 Opt("--additional-user-labels", <<"source=plumber">>) >>]

FlexCommand(job_name, gcp_project, region, template_gcs_path, parameters_str) ==
    [prog |-> "gcloud dataflow flex-template run", job |-> job_name,
     opts |-> << Opt("--project", <<gcp_project>>),
                 Opt("--region", <<region>>),
                 Opt("--template-file-gcs-location", template_gcs_path),
                 Opt("--parameters", parameters_str),
                 Opt("--additional-user-labels", <<"source=plumber">>) >>]

ClassicCommand(job_name, gcp_project, region, template_gcs_path, parameters_str, gcs_staging_location) ==
    [prog |-> "gcloud dataflow jobs run", job |-> job_name,
     opts |-> << Opt("--project", <<gcp_project>>),
                 Opt("--region", <<region>>),
                 Opt("--gcs-location", template_gcs_path),
                 Opt("--parameters", parameters_str),
                 Opt("--staging-location", <<gcs_staging_location>>),
                 Opt("--additional-user-labels", <<"source=plumber">>) >>]

\* What one call of the tool did: the dict it returned, the validator's
\* outcome (NotCalled when it was not run), the command it executed
\* (NoCommand when none) and what the command answered.
SubmitOutcome(result, validation, cmd, run) ==
    [result |-> result, validation |-> validation, cmd |-> cmd, run |-> run]

\* except Exception as err, before any command ran.
Unexpected(err, validation) ==
    SubmitOutcome(SubmitFailed("An unexpected error occurred: {err}", NoComment, err),
                  validation, NoCommand, NoRun)

\* A variant that validates whether or not a custom path is given.
AlwaysValidate(custom_gcs_path) == TRUE

\* if not custom_gcs_path
NeedsValidation(custom_gcs_path) == custom_gcs_path = <<>>

\* subprocess.run(run_cmd, capture_output=True, text=True, check=True, shell=True)
\* and the return or except clause that follows it.
RunCommand(run_cmd, validation, cli) ==
    LET run == [launched |-> TRUE, returncode |-> cli.returncode,
                stdout |-> cli.stdout, stderr |-> cli.stderr]
    IN  IF cli.returncode # 0
        THEN SubmitOutcome(
                 SubmitFailed("An unexpected error occurred: {err}", NoComment,
                              CalledProcessError(run_cmd, cli.returncode)),
                 validation, run_cmd, run)
        ELSE SubmitOutcome(SubmitSucceeded(cli.stdout), validation, run_cmd, run)

\* submit_dataflow_template; cli is what the gcloud process answers if launched.
submit_dataflow_template(job_name, input_params, template_params, gcp_project, region, gcs_staging_location, custom_gcs_path, cli) ==
    IF input_params.kind = "invalid" \/ template_params.kind = "invalid"
    THEN Unexpected(Exception("JSONDecodeError", <<"Expecting value">>), NotCalled)
    ELSE
    LET template_definition_dict ==
            IF template_params.kind = "list" /\ Len(template_params.elems) > 0
            THEN JsonDict(template_params.elems[1])
            ELSE template_params
        is_dict == template_definition_dict.kind = "dict"
        no_get == Exception("AttributeError", NoAttribute("list", "get"))
    IN  IF custom_gcs_path = <<>> /\ ~is_dict THEN Unexpected(no_get, NotCalled)
        ELSE
        LET template_gcs_path ==
                IF custom_gcs_path # <<>> THEN custom_gcs_path
                ELSE IF "template_gcs_path" \in template_definition_dict.elems[1].keys
                     THEN template_definition_dict.elems[1].template_gcs_path
                     ELSE <<>>
            validate == NeedsValidation(custom_gcs_path)
            has_params == is_dict /\ "params" \in template_definition_dict.elems[1].keys
            param_validation_result ==
                IF validate /\ has_params
                THEN dataflow_validate_input_params(
                         template_definition_dict.elems[1].params,
                         [kind |-> input_params.kind, items |-> input_params.items])
                ELSE NotCalled
        IN  IF template_gcs_path = <<>>
            THEN SubmitOutcome(
                     SubmitFailed("Job could not be submitted because the \"template_gcs_path\" key was not found.",
                                  NoComment, NoException),
                     NotCalled, NoCommand, NoRun)
            ELSE IF validate /\ ~has_params
            THEN SubmitOutcome(
                     SubmitFailed("Job could not be submitted because the template definition is missing the \"params\" key.",
                                  NoComment, NoException),
                     NotCalled, NoCommand, NoRun)
            ELSE IF param_validation_result.raised
            THEN Unexpected(Exception("Exception", param_validation_result.exc),
                            param_validation_result)
            ELSE IF param_validation_result.called
                    /\ param_validation_result.value.validation_result # "success"
            THEN SubmitOutcome(
                     SubmitFailed("Job could not be submitted due to a parameter validation error: {comment}",
                                  param_validation_result.value.comment, NoException),
                     param_validation_result, NoCommand, NoRun)
            ELSE IF input_params.kind # "dict"
            THEN Unexpected(Exception("AttributeError", NoAttribute(input_params.kind, "items")),
                            param_validation_result)
            ELSE IF ~Contains(template_gcs_path, FlexSegment) /\ ~is_dict
            THEN Unexpected(no_get, param_validation_result)
            ELSE
            LET parameters_str == ParametersStr(input_params.items)
                is_flex == IsFlex(template_gcs_path, template_definition_dict)
                run_cmd == IF is_flex
                           THEN FlexCommand(job_name, gcp_project, region,
                                            template_gcs_path, parameters_str)
                           ELSE ClassicCommand(job_name, gcp_project, region,
                                               template_gcs_path, parameters_str,
                                               gcs_staging_location)
            IN  RunCommand(run_cmd, param_validation_result, cli)

(***************************************************************************)
(* Cloud Logging query tools of the monitoring agent                       *)
(***************************************************************************)
LookbackDays == 90

DataprocLogCap == 10

LatestLogCap == 10

Whitespace == {" ", "\t", "\n"}

\* s.strip()
StripSpaces(str) == RStrip(LStrip(str, Whitespace), Whitespace)

\* The clauses of a filter, joined by " AND " in the filter string.
\*   resource.type="<name>"             TypeClause
\*   resource.labels.<name>="<text>"    LabelClause
\*   timestamp >= "<bound>Z"            TimestampClause (bound in days)
\*   <text>                             RawClause: the caller's text as it is
TypeClause(name) == [kind |-> "resource.type", name |-> name, text |-> <<>>, bound |-> 0]

LabelClause(name, text) ==
    [kind |-> "resource.labels", name |-> name, text |-> text, bound |-> 0]

TimestampClause(bound) == [kind |-> "timestamp >=", name |-> "", text |-> <<>>, bound |-> bound]

RawClause(text) == [kind |-> "raw", name |-> "", text |-> text, bound |-> 0]

\* The severities the builder knows, in scan order.
SEVERITIES_LIST ==
    << <<"I", "N", "F", "O">>,
       <<"D", "E", "F", "A", "U", "L", "T">>,
       <<"W", "A", "R", "N", "I", "N", "G">>,
       <<"N", "O", "T", "I", "C", "E">>,
       <<"D", "E", "B", "U", "G">>,
       <<"E", "R", "R", "O", "R">> >>

\* The arguments of client.list_entries.
CallArgs(filter_, max_results, order_by) ==
    [sent |-> TRUE, filter_ |-> filter_, max_results |-> max_results, order_by |-> order_by]

NoQuery == [sent |-> FALSE, filter_ |-> <<>>, max_results |-> 0, order_by |-> ""]

\* The entries the iterator of list_entries yields: the first max_results of
\* the matching entries of the log store.
ListEntries(available, max_results) == [i \in 1..Min(available, max_results) |-> i]

\* for entry in iterator: log_count += 1; collected_logs.append(...);
\* if log_count >= cap: break
RECURSIVE CollectCapped(_, _, _, _)
CollectCapped(entries, log_count, collected_logs, cap) ==
    IF entries = <<>> THEN collected_logs
    ELSE LET count == log_count + 1
             collected == Append(collected_logs, <<count, entries[1]>>)
         IN  IF count >= cap THEN collected
             ELSE CollectCapped(Tail(entries), count, collected, cap)

\* for entry in iterator: log_count += 1; collected_logs.append(...)
RECURSIVE CollectAll(_, _, _)
CollectAll(entries, log_count, collected_logs) ==
    IF entries = <<>> THEN collected_logs
    ELSE CollectAll(Tail(entries), log_count + 1,
                    Append(collected_logs, <<log_count + 1, entries[1]>>))

\* The dict a log tool returns.
LogResult(status, report, entries, message) ==
    [status |-> status, report |-> report, entries |-> entries, message |-> message]

NoLogResult == LogResult("", "", <<>>, "")

\* What one call of a log tool did: the query it sent and what it returned.
LogOutcome(query, result) == [query |-> query, result |-> result]

\* get_dataflow_job_logs_with_id
get_dataflow_job_logs_with_id(project_id, job_id, _limit, now, available, api_fails) ==
    LET filter_string == << TypeClause("dataflow_step"),
                            LabelClause("job_id", job_id),
                            TimestampClause(now - LookbackDays) >>
        query == CallArgs(filter_string, _limit, "")
    IN  IF api_fails
        THEN LogOutcome(query, LogResult("error", "", <<>>,
                 "Failed to get job with given id and error: {e}"))
        ELSE LogOutcome(query, LogResult("success", "Fetched log entries of Job ID: {job_id}:",
                 CollectAll(ListEntries(available, _limit), 0, <<>>), ""))

\* get_dataproc_logs: the list it returns (empty when the fetch failed).
get_dataproc_logs(project_id, resource_name, query_str, filter, _limit, now, available, api_fails) ==
    LET full_filter == << TypeClause(resource_name),
                          LabelClause(filter, StripSpaces(query_str)),
                          TimestampClause(now - LookbackDays) >>
        query == CallArgs(full_filter, _limit, "timestamp desc")
    IN  IF api_fails
        THEN [query |-> query, collected_logs |-> <<>>]
        ELSE [query |-> query,
              collected_logs |-> CollectCapped(ListEntries(available, _limit), 0, <<>>,
                                               DataprocLogCap)]

\* The common body of get_dataproc_cluster_logs_with_name and _with_id.
ClusterLogs(fetched) ==
    IF Len(fetched.collected_logs) = 0
    THEN LogOutcome(fetched.query,
             LogResult("success", "No log entries found matching the criteria.", <<>>, ""))
    ELSE LogOutcome(fetched.query,
             LogResult("success", "Fetched log entries:", fetched.collected_logs, ""))

get_dataproc_cluster_logs_with_name(project_id, dataproc_cluster_name, _limit, now, available, api_fails) ==
    ClusterLogs(get_dataproc_logs(project_id, "cloud_dataproc_cluster",
                                  dataproc_cluster_name, "cluster_name", _limit, now,
                                  available, api_fails))

\* A variant that looks the cluster UUID up under the cluster's name label.
ClusterLogsWithIdByName(project_id, dataproc_cluster_id, _limit, now, available, api_fails) ==
    ClusterLogs(get_dataproc_logs(project_id, "cloud_dataproc_cluster",
                                  dataproc_cluster_id, "cluster_name", _limit, now,
                                  available, api_fails))

get_dataproc_cluster_logs_with_id(project_id, dataproc_cluster_id, _limit, now, available, api_fails) ==
    ClusterLogs(get_dataproc_logs(project_id, "cloud_dataproc_cluster",
                                  dataproc_cluster_id, "cluster_uuid", _limit, now,
                                  available, api_fails))

\* for severity_exist in SEVERITIES_LIST[i..]: if severity is not None and
\* severity.upper().find(severity_exist) != -1: full_filter += " AND {severity}"; break
RECURSIVE AppendSeverity(_, _, _)
AppendSeverity(full_filter, severity, i) ==
    IF i > Len(SEVERITIES_LIST) THEN full_filter
    ELSE IF ~severity.is_none /\ Contains(StrUpper(severity.text), SEVERITIES_LIST[i])
    THEN Append(full_filter, RawClause(severity.text))
    ELSE AppendSeverity(full_filter, severity, i + 1)

\* get_latest_resource_based_logs
get_latest_resource_based_logs(project_id, severity, resource, _limit, now, available, api_fails) ==
    LET initial_filter == << TimestampClause(now - LookbackDays) >>
        call_args == CallArgs(initial_filter, _limit, "timestamp desc")
        full_filter == AppendSeverity(<< RawClause(resource) >>, severity, 1)
        \* call_args["filter_"] = full_filter
        query == [call_args EXCEPT !.filter_ = full_filter]
    IN  IF api_fails
        THEN LogOutcome(query, LogResult("error", "", <<>>,
                 "Failed to get latest resource based 10 logs: {e}"))
        ELSE LET collected_logs == CollectCapped(ListEntries(available, _limit), 0, <<>>,
                                                 LatestLogCap)
             IN  IF Len(collected_logs) = 0
                 THEN LogOutcome(query, LogResult("success",
                          "No log entries found matching the criteria.", <<>>, ""))
                 ELSE LogOutcome(query, LogResult("success",
                          "Fetched recent log entries:", collected_logs, ""))

\* What 'gcloud dataproc jobs wait' answered, or that it could not be run.
NoFallback == [ran |-> FALSE, started |-> FALSE, returncode |-> 0, stdout |-> "", stderr |-> ""]

\* get_dataproc_normal_job_logs_with_id: the CompletedProcess, or [] (started
\* = FALSE) when subprocess.run itself raised.
get_dataproc_normal_job_logs_with_id(project_id, region, job_id, filter, cli) ==
    [ran |-> TRUE, started |-> cli.started, returncode |-> cli.returncode,
     stdout |-> cli.stdout, stderr |-> cli.stderr]

\* A variant that runs the gcloud command whatever the query returned.
JobLogsAlwaysFallback(project_id, region, job_id, _limit, now, available, api_fails, cli) ==
    LET fetched == get_dataproc_logs(project_id, "cloud_dataproc_batch", job_id,
                                     "batch_id", _limit, now, available, api_fails)
        completed == get_dataproc_normal_job_logs_with_id(project_id, region, job_id, "jobs", cli)
    IN  [query |-> fetched.query, fallback |-> completed,
         result |-> LogResult("success", "Fetched log entries: {stderr} {stdout}", <<>>, "")]

\* get_dataproc_job_logs_with_id
get_dataproc_job_logs_with_id(project_id, region, job_id, _limit, now, available, api_fails, cli) ==
    LET fetched == get_dataproc_logs(project_id, "cloud_dataproc_batch", job_id,
                                     "batch_id", _limit, now, available, api_fails)
    IN  IF Len(fetched.collected_logs) = 0
        THEN LET completed == get_dataproc_normal_job_logs_with_id(
                                  project_id, region, job_id, "jobs", cli)
             IN  [query |-> fetched.query, fallback |-> completed,
                  result |->
                    IF ~completed.started
                    THEN LogResult("error", "", <<>>, "Failed to get logs: {e}")
                    ELSE IF completed.returncode # 0
                    THEN LogResult("success", "No log entries found matching the criteria.",
                                   <<>>, "")
                    ELSE LogResult("success", "Fetched log entries: {stderr} {stdout}",
                                   <<>>, "")]
        ELSE [query |-> fetched.query, fallback |-> NoFallback,
              result |-> LogResult("success", "Fetched log entries:",
                                   fetched.collected_logs, "")]

(***************************************************************************)
(* Dataproc template launcher: run_dataproc_template                       *)
(***************************************************************************)
\* The languages for which the constants module defines a name
\* <LANGUAGE>_TEMPLATE_START_SCRIPT_BIN_PATH.
TemplateLanguages == { <<"P", "Y", "T", "H", "O", "N">>, <<"J", "A", "V", "A">> }

PythonLanguage == <<"P", "y", "t", "h", "o", "n">>

JavaLanguage == <<"J", "a", "v", "a">>

\* The local variable run_cmd: bound tells whether it has been assigned.
NoRunCmd == [bound |-> FALSE, template |-> "", style |-> "", items |-> <<>>]

\* run_cmd = './bin/start.sh -- --template={template_name}' followed by one
\* option per input parameter, in the style of the language.
StartCommand(language, template_name, input_params) ==
    [bound |-> TRUE, template |-> template_name,
     style |-> IF language = PythonLanguage THEN "--{param}=\"{value}\""
               ELSE IF language = JavaLanguage THEN "--templateProperty {param}=\"{value}\""
               ELSE "",
     items |-> IF language \in {PythonLanguage, JavaLanguage} THEN input_params.items
               ELSE <<>>]

\* The dict run_dataproc_template returns: keys tells which entries it has.
RunFailed(text, detail, err, output) ==
    [keys |-> {"status", "comment"}, status |-> "failed",
     comment |-> [text |-> text, detail |-> detail, err |-> err, output |-> output],
     run_cmd |-> NoRunCmd]

RunSucceeded(stdout) ==
    [keys |-> {"status", "comment"}, status |-> "success",
     comment |-> [text |-> "Job Run Completed Successfully - {stdout}", detail |-> NoComment,
                  err |-> <<>>, output |-> stdout],
     run_cmd |-> NoRunCmd]

NoRunResult ==
    [keys |-> {}, status |-> "",
     comment |-> [text |-> "", detail |-> NoComment, err |-> <<>>, output |-> ""],
     run_cmd |-> NoRunCmd]

\* What one call did: whether an exception left the function (exc is its
\* text), the dict it returned, the validator's outcome, the command it
\* launched (NoRunCmd when none) and whether the run's temporary template
\* directory exists when the call is over.
RunOutcome(raised, exc, result, validation, cmd, temp_dir) ==
    [raised |-> raised, exc |-> exc, result |-> result, validation |-> validation,
     cmd |-> cmd, temp_dir |-> temp_dir]

UnboundLocal(name) ==
    <<"cannot access local variable", name, "where it is not associated with a value">>

\* except Exception as err: the returned dict has 'run_cmd': run_cmd, so the
\* handler itself raises when run_cmd was never assigned.  temp_dir tells
\* whether the temporary directory is there once the handler has run.
RunExcept(err, run_cmd, validation, temp_dir) ==
    IF run_cmd.bound
    THEN RunOutcome(FALSE, <<>>,
             [RunFailed("Job Failed - 2 {err}", NoComment, err, "")
                 EXCEPT !.keys = {"status", "comment", "run_cmd"}, !.run_cmd = run_cmd],
             validation, NoRunCmd, temp_dir)
    ELSE RunOutcome(TRUE, UnboundLocal("run_cmd"), NoRunResult, validation, NoRunCmd,
                    temp_dir)

\* A variant that launches whatever the validator answered.
LaunchUnvalidated(param_validation_result) == FALSE

\* if param_validation_result['validation_result'] != 'success'
ValidationRejects(param_validation_result) ==
    param_validation_result.value.validation_result # "success"

\* run_dataproc_template; update is what update_dataproc_template does when
\* called (copied: the temporary directory was created; raised: it failed),
\* cli is what start.sh answers (started = FALSE: it could not be run).
run_dataproc_template(language, template_name, input_params, template_params, TRANSFORMATION_SQL, update, cli) ==
    IF StrUpper(language) \notin TemplateLanguages
    THEN RunExcept(<<"name", "{LANGUAGE}_TEMPLATE_START_SCRIPT_BIN_PATH", "is not defined">>,
                   NoRunCmd, NotCalled, FALSE)
    ELSE IF input_params.kind = "invalid" \/ template_params.kind = "invalid"
    THEN RunExcept(<<"invalid syntax">>, NoRunCmd, NotCalled, FALSE)
    ELSE
    LET param_validation_result == dataproc_validate_input_params(template_params, input_params)
    IN  IF ValidationRejects(param_validation_result)
        THEN RunOutcome(FALSE, <<>>,
                 RunFailed("Job could not be submitted due to error while parameters validations: {comment}",
                           param_validation_result.value.comment, <<>>, ""),
                 param_validation_result, NoRunCmd, FALSE)
        ELSE IF TRANSFORMATION_SQL # "" /\ update.raised
        THEN \* temp_template_repo_path is still '': nothing is removed
             RunExcept(<<"update_dataproc_template failed">>, NoRunCmd,
                       param_validation_result, update.copied)
        ELSE
        LET run_cmd == StartCommand(language, template_name, input_params)
        IN  IF ~cli.started
            THEN RunExcept(<<"No such file or directory">>, run_cmd,
                           param_validation_result, FALSE)
            ELSE IF cli.returncode # 0
            THEN RunOutcome(FALSE, <<>>,
                     RunFailed("Job Failed - 1 {stderr}", NoComment, <<>>, cli.stderr),
                     param_validation_result, run_cmd, FALSE)
            ELSE RunOutcome(FALSE, <<>>, RunSucceeded(cli.stdout),
                            param_validation_result, run_cmd, FALSE)

(***************************************************************************)
(* Listing tools: list_dataflow_jobs and list_dataproc_serverless_batches  *)
(***************************************************************************)
MaxListedJobs == 30

\* What a listing tool did: whether an exception left the function (and
\* which), and the value it returned: a dict (status, report or
\* error_message) or a list of rows.
ListReturned(kind, status, report, error_message, rows) ==
    [raised |-> FALSE, exc |-> [type |-> "", text |-> ""],
     value |-> [kind |-> kind, status |-> status, report |-> report,
                error_message |-> error_message, rows |-> rows]]

ListRaised(type, text) ==
    [raised |-> TRUE, exc |-> [type |-> type, text |-> text],
     value |-> [kind |-> "", status |-> "", report |-> "", error_message |-> "",
                rows |-> <<>>]]

NoListing ==
    [raised |-> FALSE, exc |-> [type |-> "", text |-> ""],
     value |-> [kind |-> "", status |-> "", report |-> "", error_message |-> "",
                rows |-> <<>>]]

JobStatePrefix == <<"j", "o", "b", "_", "s", "t", "a", "t", "e", "_">>

\* [job for job in jobs if job.get('currentState', '').lower() == f"job_state_{status.lower()}"]
FilterJobs(jobs, status) ==
    SelectSeq(jobs, LAMBDA job : StrLower(job.currentState) = JobStatePrefix \o StrLower(status))

\* jobs.sort(key=lambda x: x['createTime'], reverse=True): a stable sort,
\* newest first.
RECURSIVE SortByCreateTime(_)
SortByCreateTime(jobs) ==
    IF jobs = <<>> THEN <<>>
    ELSE LET newest == CHOOSE i \in DOMAIN jobs :
                           /\ \A j \in DOMAIN jobs : jobs[j].createTime <= jobs[i].createTime
                           /\ \A j \in 1..(i - 1) : jobs[j].createTime < jobs[i].createTime
         IN  <<jobs[newest]>>
             \o SortByCreateTime(SubSeq(jobs, 1, newest - 1)
                                 \o SubSeq(jobs, newest + 1, Len(jobs)))

\* list_dataflow_jobs; api is what request.execute() does: it answers with
\* jobs, raises HttpError, or raises another error (fails names it).
list_dataflow_jobs(project_id, location, status, api) ==
    IF api.fails = "HttpError"
    THEN ListReturned("dict", "error", "",
                      "API Error listing jobs: {e.reason} (Code: {e.status_code})", <<>>)
    ELSE IF api.fails # ""
    THEN ListRaised(api.fails, api.text)
    ELSE
    LET jobs == IF status # <<>> THEN FilterJobs(api.jobs, status) ELSE api.jobs
    IN  IF jobs = <<>>
        THEN ListReturned("dict", "success", "No Dataflow jobs found {search_scope}.", "", <<>>)
        ELSE ListReturned("dict", "success", "Found {len(jobs)} jobs {search_scope}:", "",
                          Prefix(SortByCreateTime(jobs), MaxListedJobs))

\* The rows both batch listings build from the batches the API yields.
BatchRows(batches) ==
    [i \in DOMAIN batches |->
        [id |-> batches[i].id, createTime |-> batches[i].createTime,
         currentState |-> batches[i].currentState]]

\* except GoogleAPICallError / except Exception of both batch listings: the
\* error is raised again under the same type with a prefixed message.
ListBatchesExcept(api, what) ==
    IF api.fails = "GoogleAPICallError"
    THEN ListRaised("GoogleAPICallError", what)
    ELSE ListRaised("Exception", "An unexpected error occurred: {e}")

\* list_dataproc_serverless_batches
list_dataproc_serverless_batches(project_id, region, api) ==
    IF api.fails # ""
    THEN ListBatchesExcept(api, "Failed to list Dataproc Serverless batches: {e.message}")
    ELSE ListReturned("list", "", "", "", BatchRows(api.jobs))

\* list_dataproc_serverless_batches_by_state
list_dataproc_serverless_batches_by_state(project_id, region, state, api) ==
    IF api.fails # ""
    THEN ListBatchesExcept(api, "Failed to list Dataproc Serverless batches by state: {e.message}")
    ELSE ListReturned("list", "", "", "",
                      BatchRows(SelectSeq(api.jobs, LAMBDA batch : batch.currentState = state)))

(***************************************************************************)
(* Pipeline launcher: create_pipeline_from_scratch                         *)
(***************************************************************************)
\* d[key] = value on a dict kept as the ordered sequence of its items.
DictSet(items, key, value) ==
    IF \E i \in DOMAIN items : items[i][1] = key
    THEN [i \in DOMAIN items |-> IF items[i][1] = key THEN <<key, value>> ELSE items[i]]
    ELSE Append(items, <<key, value>>)

\* {**items, **more}
RECURSIVE DictMerge(_, _)
DictMerge(items, more) ==
    IF more = <<>> THEN items
    ELSE DictMerge(DictSet(items, more[1][1], more[1][2]), Tail(more))

\* s.startswith(prefix)
StartsWith(str, prefix) == Len(str) >= Len(prefix) /\ SubSeq(str, 1, Len(prefix)) = prefix

GsScheme == <<"g", "s", ":", "/", "/">>

\* os.path.join(path, name)
PathJoin(path, name) ==
    IF path = <<>> \/ path[Len(path)] = "/" THEN path \o name
    ELSE path \o <<"/">> \o name

\* str.replace(old, ""), scanning from position i.
RECURSIVE RemoveFrom(_, _, _)
RemoveFrom(str, old, i) ==
    IF i > Len(str) THEN <<>>
    ELSE IF i + Len(old) - 1 <= Len(str) /\ SubSeq(str, i, i + Len(old) - 1) = old
    THEN RemoveFrom(str, old, i + Len(old))
    ELSE <<str[i]>> \o RemoveFrom(str, old, i + 1)

Remove(str, old) == RemoveFrom(str, old, 1)

\* str.split(sep) for a one-character separator: the list of the parts, the
\* current part starting at position from, scanning at position i.
RECURSIVE SplitFrom(_, _, _, _)
SplitFrom(str, sep, from, i) ==
    IF i > Len(str) THEN <<SubSeq(str, from, Len(str))>>
    ELSE IF str[i] = sep
    THEN <<SubSeq(str, from, i - 1)>> \o SplitFrom(str, sep, i + 1, i + 1)
    ELSE SplitFrom(str, sep, from, i + 1)

Split(str, sep) == SplitFrom(str, sep, 1, 1)

\* sep.join(parts), from the i-th part on.
RECURSIVE JoinFrom(_, _, _)
JoinFrom(parts, sep, i) ==
    IF i > Len(parts) THEN <<>>
    ELSE IF i = Len(parts) THEN parts[i]
    ELSE parts[i] \o <<sep>> \o JoinFrom(parts, sep, i + 1)

Join(parts, sep) == JoinFrom(parts, sep, 1)

\* bucket_name, *path_parts = gcs_bucket_path.replace("gs://", "").split('/')
ArchiveBucket(gcs_bucket_path) == Split(Remove(gcs_bucket_path, GsScheme), "/")[1]

\* base_prefix = "/".join(filter(None, path_parts))
ArchivePrefix(gcs_bucket_path) ==
    LET path_parts == Tail(Split(Remove(gcs_bucket_path, GsScheme), "/"))
    IN  Join(SelectSeq(path_parts, LAMBDA part : part # <<>>), "/")

GeneratedPipelines ==
    <<"g", "e", "n", "e", "r", "a", "t", "e", "d", "_", "p", "i", "p", "e", "l", "i", "n", "e", "s">>

\* gcs_path_str: base_prefix/generated_pipelines/{sanitized_job_name}-{uuid.hex[:8]}.py
ArchiveName(base_prefix, sanitized_job_name, upload_hex) ==
    LET script_filename == sanitized_job_name \o <<"-">> \o Prefix(upload_hex, UuidPrefixLen) \o <<".", "p", "y">>
    IN  PathJoin(PathJoin(base_prefix, GeneratedPipelines), script_filename)

\* f"gs://{bucket_name}/{gcs_path_str}"
GcsPath(bucket_name, gcs_path_str) == GsScheme \o bucket_name \o <<"/">> \o gcs_path_str

\* The dict the pipeline tools return (as a JSON text); gcs_script_path <<>>
\* is null.
PipelineResult(status, text, job_id, gcs_script_path) ==
    [status |-> status, text |-> text, job_id |-> job_id, gcs_script_path |-> gcs_script_path]

NoPipelineResult == PipelineResult("", "", <<>>, <<>>)

\* What one call did: its result, the arguments the subprocess was started
\* with (<<>> when none was started) and the caller's pipeline_args mapping
\* as the call leaves it.
PipelineOutcome(result, full_args, pipeline_args) ==
    [result |-> result, full_args |-> full_args, pipeline_args |-> pipeline_args]

\* The argument checks, were the scheme of the bucket path not looked at.
ArgumentErrorNoScheme(project_id, region, gcs_bucket_path) ==
    IF project_id = <<>> \/ region = <<>> \/ gcs_bucket_path = <<>>
    THEN "project_id, region, and gcs_bucket_path are required."
    ELSE ""

\* The two argument checks made before anything else: the error message, or
\* "" when the arguments pass.
ArgumentError(project_id, region, gcs_bucket_path) ==
    IF project_id = <<>> \/ region = <<>> \/ gcs_bucket_path = <<>>
    THEN "project_id, region, and gcs_bucket_path are required."
    ELSE IF ~StartsWith(gcs_bucket_path, GsScheme)
    THEN "gcs_bucket_path must start with 'gs://'."
    ELSE ""

\* full_args: the tool's own settings, then the caller's pipeline_args.
FullArgs(project_id, region, gcs_bucket_path, sanitized_job_name, pipeline_args) ==
    DictMerge(
        << <<"runner", <<"DataflowRunner">> >>,
           <<"project", project_id>>,
           <<"region", region>>,
           <<"job_name", sanitized_job_name>>,
           <<"temp_location", PathJoin(gcs_bucket_path, <<"t", "e", "m", "p">>)>>,
           <<"staging_location", PathJoin(gcs_bucket_path, <<"s", "t", "a", "g", "i", "n", "g">>)>>,
           <<"labels", <<"{\"source\": \"plumber\"}">> >> >>,
        pipeline_args)

\* The status of the final report when the archive upload failed, were the
\* warning not to be told apart from a plain success.
UploadFailedStatusSuccess == "success"

UploadFailedStatus == "success_with_warning"

\* The try block of generate_and_run_beam_pipeline as a function of what its
\* environment does: proc is what the pipeline subprocess gave (its exit
\* status, the job id found in its output, <<>> when there is none, and the
\* text of an exception other than CalledProcessError raised on the way, ""
\* when none); gcs_path is where the script was archived, <<>> (None) when
\* the upload raised.
RunReport(sanitized_job_name, pipeline_type, proc, gcs_path) ==
    IF proc.error # ""
    THEN PipelineResult("error", "Unexpected error: {str(e)}", <<>>, <<>>)
    ELSE IF pipeline_type = "streaming" /\ proc.job_id = <<>>
    THEN PipelineResult("error",
             "Failed to execute pipeline script.\n--- ERROR ---\n{e.output}", <<>>, <<>>)
    ELSE IF pipeline_type # "streaming" /\ proc.returncode # 0
    THEN PipelineResult("error",
             "Failed to execute pipeline script.\n--- ERROR ---\n{e.output}", <<>>, <<>>)
    ELSE IF proc.job_id = <<>>
    THEN PipelineResult("error",
             "Job launched, but could not find Job ID in output. Full output:\n{output}",
             <<>>, <<>>)
    ELSE IF gcs_path # <<>>
    THEN PipelineResult("success",
             "Successfully launched Dataflow job '{sanitized_job_name}'.", proc.job_id, gcs_path)
    ELSE PipelineResult(UploadFailedStatus,
             "Successfully launched Dataflow job '{sanitized_job_name}'.", proc.job_id, <<>>)

\* generate_and_run_beam_pipeline; uuid_hex is what uuid.uuid4().hex gives
\* the sanitizer, upload whether the script could be archived to GCS and the
\* uuid of the archive's file name.
generate_and_run_beam_pipeline(project_id, region, gcs_bucket_path, job_name, pipeline_code, pipeline_args, pipeline_type, uuid_hex, proc, upload) ==
    IF ArgumentError(project_id, region, gcs_bucket_path) # ""
    THEN PipelineOutcome(PipelineResult("error",
             ArgumentError(project_id, region, gcs_bucket_path), <<>>, <<>>),
             <<>>, pipeline_args)
    ELSE
    LET sanitized_job_name == _sanitize_job_name(job_name, uuid_hex)
        gcs_path == IF upload.ok
                    THEN GcsPath(ArchiveBucket(gcs_bucket_path),
                                 ArchiveName(ArchivePrefix(gcs_bucket_path),
                                             sanitized_job_name, upload.uuid_hex))
                    ELSE <<>>
    IN  PipelineOutcome(
            RunReport(sanitized_job_name, pipeline_type, proc, gcs_path),
            FullArgs(project_id, region, gcs_bucket_path, sanitized_job_name, pipeline_args),
            pipeline_args)

\* create_pipeline_from_scratch.  pipeline_args is the caller's dict: the
\* assignment pipeline_args["streaming"] = "true" is made on that object.
create_pipeline_from_scratch(project_id, region, gcs_bucket_path, job_name, pipeline_code, pipeline_args, pipeline_type, uuid_hex, proc, upload) ==
    IF pipeline_type \notin {"batch", "streaming"}
    THEN PipelineOutcome(PipelineResult("error",
             "Invalid pipeline type. Please choose 'batch' or 'streaming'.", <<>>, <<>>),
             <<>>, pipeline_args)
    ELSE
    LET args == IF pipeline_type = "streaming"
                THEN DictSet(pipeline_args, "streaming", <<"true">>)
                ELSE pipeline_args
    IN  generate_and_run_beam_pipeline(project_id, region, gcs_bucket_path, job_name,
                                       pipeline_code, args, pipeline_type, uuid_hex,
                                       proc, upload)

(***************************************************************************)
(* Cloud Storage tools of the GitHub agent: bucket names                   *)
(***************************************************************************)
MIN_BUCKET_NAME_LENGTH == 3

MAX_BUCKET_NAME_LENGTH == 63

\* The characters of the class [a-z0-9\-_].
BucketNameChars == LowerSet \cup DigitChars \cup {"-", "_"}

BucketSeparators == {"-", "_"}

\* GCS_BUCKET_NAME_PATTERN.match(bucket_name)
MatchesBucketPattern(bucket_name) ==
    /\ Len(bucket_name) >= 2
    /\ bucket_name[1] \in LowerSet \cup DigitChars
    /\ bucket_name[Len(bucket_name)] \in LowerSet \cup DigitChars
    /\ \A i \in DOMAIN bucket_name : bucket_name[i] \in BucketNameChars

\* re.match(r'^\d{1,3}\.\d{1,3}\.\d{1,3}\.\d{1,3}$', bucket_name)
IsIpFormat(bucket_name) ==
    LET parts == Split(bucket_name, ".")
    IN  /\ Len(parts) = 4
        /\ \A k \in 1..4 : /\ Len(parts[k]) \in 1..3
                           /\ \A i \in DOMAIN parts[k] : parts[k][i] \in DigitChars

Validation(valid, message) == [valid |-> valid, message |-> message]

NoValidation == Validation(FALSE, "")

\* _validate_bucket_name
_validate_bucket_name(bucket_name) ==
    IF bucket_name = <<>>
    THEN Validation(FALSE, "Bucket name cannot be empty")
    ELSE IF Len(bucket_name) < MIN_BUCKET_NAME_LENGTH \/ Len(bucket_name) > MAX_BUCKET_NAME_LENGTH
    THEN Validation(FALSE, "Bucket name must be between 3 and 63 characters")
    ELSE IF ~MatchesBucketPattern(bucket_name)
    THEN Validation(FALSE, "Bucket name can only contain lowercase letters, numbers, hyphens, and underscores")
    ELSE IF Contains(StrLower(bucket_name), <<"g", "o", "o", "g", "l", "e">>)
    THEN Validation(FALSE, "Bucket name cannot contain 'google'")
    ELSE IF IsIpFormat(bucket_name)
    THEN Validation(FALSE, "Bucket name cannot be formatted as an IP address")
    ELSE Validation(TRUE, "Bucket name is valid")

\* re.sub(r'[^a-z0-9\-_]', '-', name)
ReplaceInvalidBucketChars(name) ==
    [i \in DOMAIN name |-> IF name[i] \in BucketNameChars THEN name[i] ELSE "-"]

\* re.sub(r'[-_]+', '-', name): every run of hyphens and underscores becomes
\* one hyphen.
RECURSIVE CollapseSeparators(_)
CollapseSeparators(name) ==
    IF name = <<>> THEN <<>>
    ELSE IF name[1] \notin BucketSeparators THEN <<name[1]>> \o CollapseSeparators(Tail(name))
    ELSE <<"-">> \o CollapseSeparators(LStrip(name, BucketSeparators))

RepoSuffix == <<"-", "r", "e", "p", "o">>

\* _sanitize_bucket_name
_sanitize_bucket_name(name) ==
    LET lowered == StrLower(name)
        replaced == ReplaceInvalidBucketChars(lowered)
        collapsed == CollapseSeparators(replaced)
        stripped == RStrip(LStrip(collapsed, BucketSeparators), BucketSeparators)
        padded == IF Len(stripped) < MIN_BUCKET_NAME_LENGTH THEN stripped \o RepoSuffix
                  ELSE stripped
    IN  IF Len(padded) > MAX_BUCKET_NAME_LENGTH
        THEN RStrip(Prefix(padded, MAX_BUCKET_NAME_LENGTH), BucketSeparators)
        ELSE padded

\* The dict a Cloud Storage tool returns.
StorageResult(status, message, objects_deleted) ==
    [status |-> status, message |-> message, objects_deleted |-> objects_deleted]

NoStorageResult == StorageResult("", "", 0)

\* upload_repository_to_gcs called without a bucket name: path is what
\* repo_path names ("missing", "file" or "dir"), repository_name the name
\* given or else the base name of repo_path, gcs_ok whether the calls to
\* Cloud Storage that follow the validation all succeed.  The value holds
\* the bucket name used, its validation and the dict returned.
upload_repository_to_gcs(path, repository_name, gcs_ok) ==
    IF path = "missing"
    THEN [bucket_name |-> <<>>, validation |-> NoValidation,
          result |-> StorageResult("error", "Repository path does not exist: {repo_path}", 0)]
    ELSE IF path # "dir"
    THEN [bucket_name |-> <<>>, validation |-> NoValidation,
          result |-> StorageResult("error", "Path is not a directory: {repo_path}", 0)]
    ELSE
    LET bucket_name == _sanitize_bucket_name(repository_name \o RepoSuffix)
        validation == _validate_bucket_name(bucket_name)
    IN  [bucket_name |-> bucket_name, validation |-> validation,
         result |-> IF ~validation.valid THEN StorageResult("error", validation.message, 0)
                    ELSE IF gcs_ok
                    THEN StorageResult("success", "Repository uploaded to bucket '{bucket_name}'", 0)
                    ELSE StorageResult("error", "Failed to upload repository: {e}", 0)]

(***************************************************************************)
(* Cloud Storage tools of the GitHub agent: delete_gcs_bucket              *)
(***************************************************************************)
\* One call made to Cloud Storage: blob.delete of an object or
\* bucket.delete, and the exception it raised ("" when it succeeded).
StorageCall(method, name, error) == [method |-> method, name |-> name, ok |-> error = "", error |-> error]

\* except GoogleAPIError in the loop over the blobs, were the failure passed
\* over and the loop to go on with the next blob.
ObjectDeleteFailedGoesOn(bucket) == [bucket EXCEPT !.listed = Tail(@)]

\* except GoogleAPIError in the loop over the blobs: the tool returns.
ObjectDeleteFailed(bucket) ==
    [bucket EXCEPT !.pc = "returned",
        !.result = StorageResult("error", "Failed to delete object '{blob.name}': {e}", 0)]

(***************************************************************************)
(* Dataproc cluster tools: update_cluster                                  *)
(***************************************************************************)
\* num_workers: None, or a number of instances.
NoWorkers == [is_none |-> TRUE, value |-> 0]

Workers(n) == [is_none |-> FALSE, value |-> n]

NumInstancesPath == "config.worker_config.num_instances"

\* A request made to the Dataproc API.
ClusterRequest(method, num_instances, update_mask) ==
    [method |-> method, num_instances |-> num_instances, update_mask |-> update_mask]

ClusterResult(status, report, error_message) ==
    [status |-> status, report |-> report, error_message |-> error_message]

NoClusterResult == ClusterResult("", "", "")

\* The update mask of the request, were it to name the whole worker config.
UpdateMaskWholeConfig(num_workers) ==
    IF ~num_workers.is_none THEN <<"config.worker_config">> ELSE <<>>

\* update_mask_paths
UpdateMask(num_workers) ==
    IF ~num_workers.is_none THEN <<NumInstancesPath>> ELSE <<>>

\* update_cluster; api tells how the Dataproc API answers: the cluster's
\* current number of workers and whether get_cluster or update_cluster
\* fails.  The value holds the requests made, the dict returned and the
\* cluster's number of workers afterwards.
update_cluster(project_id, region, cluster_name, num_workers, api) ==
    IF num_workers.is_none
    THEN [requests |-> <<>>, workers |-> api.current,
          result |-> ClusterResult("Success",
              "No changes made to cluster '{cluster_name}' in region '{region}', as no worker configuration was provided.", "")]
    ELSE IF api.get_fails
    THEN [requests |-> <<ClusterRequest("get_cluster", 0, <<>>)>>, workers |-> api.current,
          result |-> ClusterResult("error", "", "Failed to update cluster: {e.message}")]
    ELSE IF num_workers.value = api.current
    THEN [requests |-> <<ClusterRequest("get_cluster", 0, <<>>)>>, workers |-> api.current,
          result |-> ClusterResult("Success",
              "No changes made to cluster '{cluster_name}' in region '{region}', as the number of workers is already set to {num_workers}.", "")]
    ELSE
    LET requests == <<ClusterRequest("get_cluster", 0, <<>>),
                      ClusterRequest("update_cluster", num_workers.value, UpdateMask(num_workers))>>
    IN  IF api.update_fails
        THEN [requests |-> requests, workers |-> api.current,
              result |-> ClusterResult("error", "", "Failed to update cluster: {e.message}")]
        ELSE [requests |-> requests, workers |-> num_workers.value,
              result |-> ClusterResult("success",
                  "Cluster '{cluster_name}' updated successfully in region '{region}'.", "")]

(***************************************************************************)
(* Arguments the calls under study are made with                           *)
(***************************************************************************)
MaxParams == 2

MaxInputs == 2

TemplateParamNames == {"source", "target", "mode"}

UserKeys == {"source", "target", "bogus"}

\* The value under 'required' or 'optional': a list of names, or None.
ParamLists == {PyList(l) : l \in SeqsUpTo(TemplateParamNames, MaxParams)} \cup {PyNone}

ListsFor(key, keys) == IF key \in keys THEN ParamLists ELSE {PyList(<<>>)}

TemplateDefinitions ==
    UNION { {TemplateDict(keys, req, opt) :
                req \in ListsFor("required", keys), opt \in ListsFor("optional", keys)} :
            keys \in SUBSET {"required", "optional"} }
    \cup {NonDict("NoneType"), NonDict("list")}

\* Ordered mappings of at most MaxInputs of the keys to the values.
Mappings(keys, values) ==
    {items \in SeqsUpTo(keys \X values, MaxInputs) :
        IsInjective([i \in DOMAIN items |-> items[i][1]])}

UserInputs ==
    {InputDict(items) : items \in Mappings(UserKeys, {"a"})}
    \cup {NonDictInput("NoneType"), NonDictInput("list")}

\* active marks the component whose calls a behaviour follows; the other
\* components stay idle.
IdleValidator ==
    [active |-> FALSE, template_definition |-> NonDict("NoneType"), user_inputs |-> NonDictInput("NoneType"),
     dataflow |-> NotCalled, dataproc |-> NotCalled]

\* Job names: a short head and a short tail of assorted characters around a
\* run of letters that brings the name to the length cap, and the examples
\* of the documentation.
MaxHead == 1

MaxTail == 2

NameChars == {"a", "Z", "7", "-", "!"}

PadSlack == 6

PadLens == {0} \cup {MaxJobNameLen - k : k \in 1..PadSlack}

ExampleNames == { <<"M", "y", " ", "J", "o", "b", "!", "!">>, <<"1", "2", "3", "-", "s", "t", "a", "r", "t">> }

\* Names with a run of hyphens inside.
HyphenNames == { <<"a", "-", "-", "b">>, <<"7", "-", "-", "-", "b", "-">> }

JobNames ==
    {head \o [i \in 1..n |-> "a"] \o tail :
        head \in SeqsUpTo(NameChars, MaxHead), n \in PadLens,
        tail \in SeqsUpTo(NameChars, MaxTail)}
    \cup ExampleNames \cup HyphenNames

UuidHexLen == 32

UuidHexDigits == { <<"0">>, <<"a", "9", "f">>, <<"d", "e", "a", "d", "b", "e", "e", "f", "1">> }

\* Values of uuid.uuid4().hex.
UuidHexes == {[i \in 1..UuidHexLen |-> h[(i % Len(h)) + 1]] : h \in UuidHexDigits}

\* first: the result for name; second: the result for first; twin: the
\* result of another call for name (twinned tells whether it was made).
IdleSanitizer ==
    [pc |-> "idle", name |-> <<>>, first |-> <<>>, second |-> <<>>, twinned |-> FALSE,
     twin |-> <<>>]

TemplatePaths == { <<>>, <<"g", "s", ":", "/", "/", "b", "k", "t", "/", "t", "e", "m", "p", "l", "a", "t", "e", "s", "/", "f", "l", "e", "x", "/", "F", "o", "o">>, <<"g", "s", ":", "/", "/", "b", "k", "t", "/", "t", "e", "m", "p", "l", "a", "t", "e", "s", "/", "c", "l", "a", "s", "s", "i", "c", "/", "F", "o", "o">>, <<"g", "s", ":", "/", "/", "b", "k", "t", "/", "t", "e", "m", "p", "l", "a", "t", "e", "s", "/", "f", "l", "e", "x">> }

CustomPaths == { <<>>, <<"g", "s", ":", "/", "/", "b", "k", "t", "/", "s", "t", "a", "g", "e", "d", "/", "f", "l", "e", "x", "/", "C", "u", "s", "t", "o", "m">>, <<"g", "s", ":", "/", "/", "b", "k", "t", "/", "s", "t", "a", "g", "e", "d", "/", "C", "u", "s", "t", "o", "m">> }

TemplateTypes == {"FLEX", "CLASSIC", "flex"}

SubmitDefinitions ==
    { TemplateDict({"required", "optional"}, PyList(<<"source">>), PyList(<<"mode">>)),
      TemplateDict({}, PyList(<<>>), PyList(<<>>)),
      NonDict("NoneType") }

Descriptors ==
    UNION { {Descriptor(keys, path, type, params) :
                path \in (IF "template_gcs_path" \in keys THEN TemplatePaths ELSE {<<>>}),
                type \in (IF "type" \in keys THEN TemplateTypes ELSE {""}),
                params \in (IF "params" \in keys THEN SubmitDefinitions
                                                 ELSE {NonDict("NoneType")})} :
            keys \in SUBSET {"template_gcs_path", "type", "params"} }

TemplateParamsJson ==
    {JsonDict(d) : d \in Descriptors} \cup {JsonList(<<d>>) : d \in Descriptors}
    \cup {JsonList(<<>>), JsonInvalid}

InputParamsJson ==
    {InputDict(items) : items \in Mappings({"source", "mode", "bogus"}, {"a", "x,y"})}
    \cup {NonDictInput("list"), NonDictInput("invalid")}

\* What the gcloud process answers when it is launched.
CliRuns ==
    { [returncode |-> 0, stdout |-> "job id: 2025-07-11_02_51_43-1265", stderr |-> ""],
      [returncode |-> 1, stdout |-> "",
       stderr |-> "ERROR: (gcloud.dataflow.jobs.run) PERMISSION_DENIED"],
      [returncode |-> 2, stdout |-> "usage: gcloud dataflow",
       stderr |-> "ERROR: (gcloud) Invalid choice"] }

IdleSubmit ==
    [active |-> FALSE, called |-> FALSE, job_name |-> "", input_params |-> NonDictInput("invalid"),
     template_params |-> JsonInvalid, gcp_project |-> "", region |-> "",
     gcs_staging_location |-> "", custom_gcs_path |-> <<>>,
     result |-> NoSubmitResult, validation |-> NotCalled, cmd |-> NoCommand, run |-> NoRun]

MaxLimit == 12

MaxAvailable == 12

Nows == {19000, 20394}

LabelValues == { <<"2", "0", "2", "5", "-", "0", "7", "-", "1", "1", "_", "0", "2", "_", "5", "1", "_", "4", "3", "-", "1", "2", "6", "5">>, <<"m", "y", "-", "c", "l", "u", "s", "t", "e", "r">>, <<" ", "m", "y", "-", "c", "l", "u", "s", "t", "e", "r", " ">> }

SeverityTexts == { <<>>, <<"E", "R", "R", "O", "R">>, <<"E", "R", "R", "O", "R", " ", "l", "o", "g", "s", " ", "p", "l", "e", "a", "s", "e">>, <<"I", "n", "f", "o">>, <<"w", "a", "r", "n", "i", "n", "g", " ", "o", "r", " ", "e", "r", "r", "o", "r">>, <<"c", "r", "i", "t", "i", "c", "a", "l">>, <<"s", "e", "v", "e", "r", "i", "t", "y", "=", "E", "R", "R", "O", "R">> }

Severities ==
    {[is_none |-> FALSE, text |-> t] : t \in SeverityTexts}
    \cup {[is_none |-> TRUE, text |-> <<>>]}

Resources == { <<>>, <<"r", "e", "s", "o", "u", "r", "c", "e", ".", "t", "y", "p", "e", "=", "g", "c", "e", "_", "i", "n", "s", "t", "a", "n", "c", "e">> }

\* What 'gcloud dataproc jobs wait' answers; started = FALSE: it could not be run.
FallbackRuns ==
    { [started |-> TRUE, returncode |-> 0, stdout |-> "Job finished", stderr |-> "Waiting"],
      [started |-> TRUE, returncode |-> 1, stdout |-> "", stderr |-> "NOT_FOUND"],
      [started |-> FALSE, returncode |-> 0, stdout |-> "", stderr |-> ""] }

IdleLogs ==
    [active |-> FALSE, tool |-> "", _limit |-> 0, now |-> 0, available |-> 0, api_fails |-> FALSE,
     label_value |-> <<>>, severity |-> [is_none |-> TRUE, text |-> <<>>],
     resource |-> <<>>, query |-> NoQuery, fallback |-> NoFallback, result |-> NoLogResult]

\* Arguments of run_dataproc_template and what its helpers answer.
Languages == { PythonLanguage, JavaLanguage, <<"p", "y", "t", "h", "o", "n">>, <<"S", "c", "a", "l", "a">> }

RunInputParams ==
    {InputDict(items) : items \in Mappings({"source", "bogus"}, {"a"})}
    \cup {NonDictInput("list"), NonDictInput("invalid")}

RunTemplateParams ==
    { TemplateDict({"required", "optional"}, PyList(<<"source">>), PyList(<<"mode">>)),
      TemplateDict({}, PyList(<<>>), PyList(<<>>)),
      NonDict("NoneType"), NonDict("invalid") }

TransformationSqls == {"", "SELECT id, UPPER(name) FROM source"}

\* What update_dataproc_template does when it is called.
UpdateRuns ==
    { [copied |-> TRUE, raised |-> FALSE],
      [copied |-> TRUE, raised |-> TRUE],
      [copied |-> FALSE, raised |-> TRUE] }

\* What start.sh answers; started = FALSE: it could not be run.
StartRuns ==
    { [started |-> TRUE, returncode |-> 0, stdout |-> "Batch [abc] submitted.", stderr |-> ""],
      [started |-> TRUE, returncode |-> 1, stdout |-> "",
       stderr |-> "ERROR: (gcloud.dataproc.batches.submit) INVALID_ARGUMENT"],
      [started |-> FALSE, returncode |-> 0, stdout |-> "", stderr |-> ""] }

IdleTemplateRun ==
    [active |-> FALSE, called |-> FALSE, language |-> <<>>, template_name |-> "",
     input_params |-> NonDictInput("invalid"), template_params |-> NonDict("invalid"),
     TRANSFORMATION_SQL |-> "", raised |-> FALSE, exc |-> <<>>,
     result |-> NoRunResult, validation |-> NotCalled, cmd |-> NoRunCmd, temp_dir |-> FALSE]

\* What the listing APIs answer: the jobs or batches of the project, or an
\* error (fails names its type).
MaxJobs == 2

DataflowStates == { <<"J", "O", "B", "_", "S", "T", "A", "T", "E", "_", "R", "U", "N", "N", "I", "N", "G">>, <<"J", "O", "B", "_", "S", "T", "A", "T", "E", "_", "D", "O", "N", "E">> }

BatchStates == { <<"R", "U", "N", "N", "I", "N", "G">>, <<"S", "U", "C", "C", "E", "E", "D", "E", "D">> }

ApiItems(states) ==
    SeqsUpTo([id : {"j1", "j2"}, createTime : {1, 2}, currentState : states], MaxJobs)

ApiAnswers(states, errors) ==
    {[fails |-> "", text |-> "", jobs |-> jobs] : jobs \in ApiItems(states)}
    \cup {[fails |-> e, text |-> "The service is unavailable", jobs |-> <<>>] : e \in errors}

DataflowApiAnswers == ApiAnswers(DataflowStates, {"HttpError", "TimeoutError", "RefreshError"})

BatchApiAnswers == ApiAnswers(BatchStates, {"GoogleAPICallError", "TimeoutError"})

JobStatuses == { <<>>, <<"r", "u", "n", "n", "i", "n", "g">>, <<"A", "C", "T", "I", "V", "E">> }

IdleListing ==
    [active |-> FALSE, service |-> "", tool |-> "", status |-> <<>>,
     api |-> [fails |-> "", text |-> "", jobs |-> <<>>], out |-> NoListing]

\* Arguments of create_pipeline_from_scratch and what the pipeline's
\* subprocess and the archive upload do.
MaxArgs == 2

ProjectIds == { <<>>, <<"my-project">> }

BucketPaths == { <<"g", "s", ":", "/", "/", "b", "k", "t">>, <<"b", "k", "t">> }

PipelineJobNames == { <<>>, <<"M", "y", " ", "J", "o", "b", "!", "!">> }

PipelineArgs ==
    {items \in SeqsUpTo({"input", "streaming", "job_name"} \X {<<"x">>}, MaxArgs) :
        IsInjective([i \in DOMAIN items |-> items[i][1]])}

PipelineTypes == {"batch", "streaming", "realtime"}

ProcRuns ==
    { [returncode |-> 0, job_id |-> <<"2", "0", "2", "5", "-", "0", "7", "-", "1", "1", "_", "0", "2", "_", "5", "1", "_", "4", "3", "-", "1", "2", "6", "5">>, error |-> ""],
      [returncode |-> 0, job_id |-> <<>>, error |-> ""],
      [returncode |-> 1, job_id |-> <<>>, error |-> ""],
      [returncode |-> 0, job_id |-> <<>>, error |-> "[Errno 28] No space left on device"] }

UploadRuns == [ok : BOOLEAN, uuid_hex : UuidHexes]

IdlePipeline ==
    [active |-> FALSE, pc |-> "idle", project_id |-> <<>>, gcs_bucket_path |-> <<>>,
     job_name |-> <<>>, passed |-> <<>>, pipeline_args |-> <<>>, pipeline_type |-> "",
     result |-> NoPipelineResult, full_args |-> <<>>]

\* The pipeline launcher as a process: concurrent invocations of
\* create_pipeline_from_scratch on one file system.
Invocations == {1, 2}

\* What uuid.uuid4() gives for the name of the temporary script.
TempUuids == {"3f2a51c0", "91cc07be"}

\* What the pipeline script prints, line by line: the job id the line
\* holds, <<>> for a line without one.
MaxLines == 2

JobIdA == <<"2", "0", "2", "5", "-", "0", "7", "-", "1", "1", "_", "0", "2", "_", "5", "1", "_", "4", "3", "-", "1", "2", "6", "5">>

JobIdB == <<"2", "0", "2", "5", "-", "0", "7", "-", "1", "2", "_", "1", "0", "_", "0", "0", "_", "0", "0", "-", "7", "7">>

OutputLines == SeqsUpTo({<<>>, JobIdA, JobIdB}, MaxLines)

RunnerBucketPaths == BucketPaths \cup { <<"g", "s", ":", "/", "/", "b", "k", "t", "/", "d", "i", "r", "/">> }

RunnerArgs ==
    { <<>>, << <<"input", <<"x">> >> >>, << <<"job_name", <<"x">> >> >>,
      << <<"runner", <<"DirectRunner">> >> >> }

\* The calls made: valid ones (with and without caller's settings that
\* collide with the tool's), one whose job name reduces to nothing, one
\* without a project and one with a bucket path that is no gs:// path.
RunnerCalls ==
    {[project_id |-> <<"my-project">>, gcs_bucket_path |-> b, job_name |-> <<"M", "y", " ", "J", "o", "b", "!", "!">>, pipeline_args |-> a, uuid_hex |-> CHOOSE h \in UuidHexes : TRUE] :
        b \in {p \in RunnerBucketPaths : StartsWith(p, GsScheme)}, a \in RunnerArgs}
    \cup {[project_id |-> <<"my-project">>, gcs_bucket_path |-> <<"g", "s", ":", "/", "/", "b", "k", "t">>, job_name |-> <<>>, pipeline_args |-> <<>>, uuid_hex |-> h] : h \in UuidHexes}
    \cup {[project_id |-> p, gcs_bucket_path |-> b, job_name |-> <<"M", "y", " ", "J", "o", "b", "!", "!">>, pipeline_args |-> <<>>, uuid_hex |-> CHOOSE h \in UuidHexes : TRUE] :
            p \in ProjectIds, b \in RunnerBucketPaths}

NoUpload == [ok |-> FALSE, uuid_hex |-> <<>>]

NoBlob == [bucket |-> <<>>, name |-> <<>>]

NoPipelineCommand == [script |-> <<>>, args |-> <<>>]

IdleInvocation ==
    [pc |-> "off", project_id |-> <<>>, gcs_bucket_path |-> <<>>, job_name |-> <<>>,
     pipeline_args |-> <<>>, pipeline_type |-> "", uuid_hex |-> <<>>,
     lines |-> <<>>, eof |-> FALSE,
     uuid4 |-> "", temp_filename |-> <<>>, sanitized_job_name |-> <<>>, full_args |-> <<>>,
     command |-> NoPipelineCommand, process |-> "none", signals |-> <<>>, read |-> 0,
     job_id |-> <<>>, returncode |-> 0, error |-> "", upload |-> NoUpload, blob |-> NoBlob,
     wrote |-> {}, removed |-> {}, result |-> NoPipelineResult]

IdleRunner == [active |-> FALSE, fs |-> {}, inv |-> [i \in Invocations |-> IdleInvocation]]

\* Names given to the bucket-name functions: short ones over a few
\* characters, examples, and long ones around the maximal length.
MaxNameLen == 3

NameAlphabet == {"a", "G", "1", "-", "_", "."}

LongNameLens == {MAX_BUCKET_NAME_LENGTH - 2, MAX_BUCKET_NAME_LENGTH - 1, MAX_BUCKET_NAME_LENGTH, MAX_BUCKET_NAME_LENGTH + 1}

LongNameTails == { <<"-", "b">>, <<"-", "_">>, <<"b", "c">> }

BucketNameInputs ==
    SeqsUpTo(NameAlphabet, MaxNameLen)
    \cup { <<"g", "o", "o", "g", "l", "e">>, <<"M", "y", "_", "R", "e", "p", "o">>, <<"G", "o", "o", "g", "l", "e", "-", "C", "l", "o", "u", "d", "-", "S", "a", "m", "p", "l", "e", "s">>, <<"a", "d", "k", " ", "s", "a", "m", "p", "l", "e", "s", "!">> }
    \cup {[i \in 1..n |-> "a"] \o t : n \in LongNameLens, t \in LongNameTails}

IdleBucket ==
    [pc |-> "idle", force |-> FALSE, exists |-> FALSE, initial |-> <<>>, objects |-> <<>>,
     listed |-> <<>>, deleted_objects |-> <<>>, calls |-> <<>>, result |-> NoStorageResult]

IdleStorage ==
    [active |-> FALSE, tool |-> "", name |-> <<>>, sanitized |-> <<>>,
     validation |-> NoValidation, result |-> NoStorageResult, bucket |-> IdleBucket]

\* The objects of the bucket that delete_gcs_bucket is called on.
MaxObjects == 3

ObjectNames == {"a.py", "b.py", "c.zip"}

BucketContents == {objects \in SeqsUpTo(ObjectNames, MaxObjects) : IsInjective(objects)}

\* The clusters update_cluster is called on and the numbers asked for.
MaxWorkers == 6

ClusterApis == [current : 0..MaxWorkers, get_fails : BOOLEAN, update_fails : BOOLEAN]

IdleCluster ==
    [active |-> FALSE, called |-> FALSE, num_workers |-> NoWorkers, before |-> 0,
     workers |-> 0, requests |-> <<>>, result |-> NoClusterResult]

(***************************************************************************)
(* Parameter validation: one call of each validator on the same arguments  *)
(***************************************************************************)
InitValidate ==
    /\ validator \in {[IdleValidator EXCEPT !.active = TRUE, !.template_definition = d, !.user_inputs = u] :
                         d \in TemplateDefinitions, u \in UserInputs}
    /\ sanitizer = IdleSanitizer
    /\ submit = IdleSubmit
    /\ logs = IdleLogs
    /\ template_run = IdleTemplateRun
    /\ listing = IdleListing
    /\ pipeline = IdlePipeline
    /\ runner = IdleRunner
    /\ storage = IdleStorage
    /\ cluster = IdleCluster

CallDataflowValidator ==
    /\ validator.active /\ ~validator.dataflow.called
    /\ validator' = [validator EXCEPT !.dataflow =
           dataflow_validate_input_params(validator.template_definition,
                                          validator.user_inputs)]
    /\ UNCHANGED <<sanitizer, submit, logs, template_run, listing, pipeline, runner, storage, cluster>>

CallDataprocValidator ==
    /\ validator.active /\ ~validator.dataproc.called
    /\ validator' = [validator EXCEPT !.dataproc =
           dataproc_validate_input_params(validator.template_definition,
                                          validator.user_inputs)]
    /\ UNCHANGED <<sanitizer, submit, logs, template_run, listing, pipeline, runner, storage, cluster>>

NextValidate == CallDataflowValidator \/ CallDataprocValidator

SpecValidate == InitValidate /\ [][NextValidate]_vars

(***************************************************************************)
(* Job-name sanitizing: the sanitizer on a name, then on its own result    *)
(***************************************************************************)
InitSanitize ==
    /\ sanitizer \in {[IdleSanitizer EXCEPT !.pc = "start", !.name = n] : n \in JobNames}
    /\ validator = IdleValidator
    /\ submit = IdleSubmit
    /\ logs = IdleLogs
    /\ template_run = IdleTemplateRun
    /\ listing = IdleListing
    /\ pipeline = IdlePipeline
    /\ runner = IdleRunner
    /\ storage = IdleStorage
    /\ cluster = IdleCluster

Sanitize ==
    /\ sanitizer.pc = "start"
    /\ \E uuid_hex \in UuidHexes :
         sanitizer' = [sanitizer EXCEPT !.pc = "sanitized",
                           !.first = _sanitize_job_name(sanitizer.name, uuid_hex)]
    /\ UNCHANGED <<validator, submit, logs, template_run, listing, pipeline, runner, storage, cluster>>

SanitizeAgain ==
    /\ sanitizer.pc = "sanitized"
    /\ \E uuid_hex \in UuidHexes :
         sanitizer' = [sanitizer EXCEPT !.pc = "resanitized",
                           !.second = _sanitize_job_name(sanitizer.first, uuid_hex)]
    /\ UNCHANGED <<validator, submit, logs, template_run, listing, pipeline, runner, storage, cluster>>

SanitizeSame ==
    /\ sanitizer.pc # "idle" /\ ~sanitizer.twinned
    /\ \E uuid_hex \in UuidHexes :
         sanitizer' = [sanitizer EXCEPT !.twinned = TRUE,
                           !.twin = _sanitize_job_name(sanitizer.name, uuid_hex)]
    /\ UNCHANGED <<validator, submit, logs, template_run, listing, pipeline, runner, storage, cluster>>

NextSanitize == Sanitize \/ SanitizeAgain \/ SanitizeSame

SpecSanitize == InitSanitize /\ [][NextSanitize]_vars

(***************************************************************************)
(* Template launch: one call of submit_dataflow_template                   *)
(***************************************************************************)
InitSubmit ==
    /\ submit \in {[IdleSubmit EXCEPT !.active = TRUE, !.job_name = "my-job", !.gcp_project = "my-project",
                        !.region = "us-central1", !.gcs_staging_location = "gs://bkt/staging",
                        !.input_params = i, !.template_params = t, !.custom_gcs_path = c] :
                      i \in InputParamsJson, t \in TemplateParamsJson, c \in CustomPaths}
    /\ validator = IdleValidator
    /\ sanitizer = IdleSanitizer
    /\ logs = IdleLogs
    /\ template_run = IdleTemplateRun
    /\ listing = IdleListing
    /\ pipeline = IdlePipeline
    /\ runner = IdleRunner
    /\ storage = IdleStorage
    /\ cluster = IdleCluster

SubmitDataflowTemplate ==
    /\ submit.active /\ ~submit.called
    /\ \E cli \in CliRuns :
         LET out == submit_dataflow_template(submit.job_name, submit.input_params,
                        submit.template_params, submit.gcp_project, submit.region,
                        submit.gcs_staging_location, submit.custom_gcs_path, cli)
         IN  submit' = [submit EXCEPT !.called = TRUE, !.result = out.result,
                            !.validation = out.validation, !.cmd = out.cmd, !.run = out.run]
    /\ UNCHANGED <<validator, sanitizer, logs, template_run, listing, pipeline, runner, storage, cluster>>

NextSubmit == SubmitDataflowTemplate

SpecSubmit == InitSubmit /\ [][NextSubmit]_vars

(***************************************************************************)
(* Log queries: one call of a log tool against a log store                 *)
(***************************************************************************)
InitLogs ==
    /\ logs \in {[IdleLogs EXCEPT !.active = TRUE, !._limit = l, !.now = n, !.available = a, !.api_fails = f] :
                    l \in 1..MaxLimit, n \in Nows, a \in 0..MaxAvailable, f \in BOOLEAN}
    /\ validator = IdleValidator
    /\ sanitizer = IdleSanitizer
    /\ submit = IdleSubmit
    /\ template_run = IdleTemplateRun
    /\ listing = IdleListing
    /\ pipeline = IdlePipeline
    /\ runner = IdleRunner
    /\ storage = IdleStorage
    /\ cluster = IdleCluster

GetDataflowJobLogsWithId ==
    /\ logs.active /\ logs.tool = ""
    /\ \E job_id \in LabelValues :
         LET out == get_dataflow_job_logs_with_id("my-project", job_id, logs._limit,
                        logs.now, logs.available, logs.api_fails)
         IN  logs' = [logs EXCEPT !.tool = "get_dataflow_job_logs_with_id",
                          !.label_value = job_id, !.query = out.query, !.result = out.result]
    /\ UNCHANGED <<validator, sanitizer, submit, template_run, listing, pipeline, runner, storage, cluster>>

GetDataprocClusterLogsWithName ==
    /\ logs.active /\ logs.tool = ""
    /\ \E name \in LabelValues :
         LET out == get_dataproc_cluster_logs_with_name("my-project", name, logs._limit,
                        logs.now, logs.available, logs.api_fails)
         IN  logs' = [logs EXCEPT !.tool = "get_dataproc_cluster_logs_with_name",
                          !.label_value = name, !.query = out.query, !.result = out.result]
    /\ UNCHANGED <<validator, sanitizer, submit, template_run, listing, pipeline, runner, storage, cluster>>

GetDataprocClusterLogsWithId ==
    /\ logs.active /\ logs.tool = ""
    /\ \E id \in LabelValues :
         LET out == get_dataproc_cluster_logs_with_id("my-project", id, logs._limit,
                        logs.now, logs.available, logs.api_fails)
         IN  logs' = [logs EXCEPT !.tool = "get_dataproc_cluster_logs_with_id",
                          !.label_value = id, !.query = out.query, !.result = out.result]
    /\ UNCHANGED <<validator, sanitizer, submit, template_run, listing, pipeline, runner, storage, cluster>>

GetDataprocJobLogsWithId ==
    /\ logs.active /\ logs.tool = ""
    /\ \E job_id \in LabelValues, cli \in FallbackRuns :
         LET out == get_dataproc_job_logs_with_id("my-project", "us-central1", job_id,
                        logs._limit, logs.now, logs.available, logs.api_fails, cli)
         IN  logs' = [logs EXCEPT !.tool = "get_dataproc_job_logs_with_id",
                          !.label_value = job_id, !.query = out.query,
                          !.fallback = out.fallback, !.result = out.result]
    /\ UNCHANGED <<validator, sanitizer, submit, template_run, listing, pipeline, runner, storage, cluster>>

GetLatestResourceBasedLogs ==
    /\ logs.active /\ logs.tool = ""
    /\ \E severity \in Severities, resource \in Resources :
         LET out == get_latest_resource_based_logs("my-project", severity, resource,
                        logs._limit, logs.now, logs.available, logs.api_fails)
         IN  logs' = [logs EXCEPT !.tool = "get_latest_resource_based_logs",
                          !.severity = severity, !.resource = resource,
                          !.query = out.query, !.result = out.result]
    /\ UNCHANGED <<validator, sanitizer, submit, template_run, listing, pipeline, runner, storage, cluster>>

NextLogs ==
    \/ GetDataflowJobLogsWithId
    \/ GetDataprocClusterLogsWithName
    \/ GetDataprocClusterLogsWithId
    \/ GetDataprocJobLogsWithId
    \/ GetLatestResourceBasedLogs

SpecLogs == InitLogs /\ [][NextLogs]_vars

(***************************************************************************)
(* Dataproc template launch: one call of run_dataproc_template             *)
(***************************************************************************)
InitTemplateRun ==
    /\ template_run \in {[IdleTemplateRun EXCEPT !.active = TRUE, !.language = l, !.template_name = "GCSTOBIGQUERY", !.input_params = i, !.template_params = t, !.TRANSFORMATION_SQL = q] :
                            l \in Languages, i \in RunInputParams, t \in RunTemplateParams, q \in TransformationSqls}
    /\ validator = IdleValidator
    /\ sanitizer = IdleSanitizer
    /\ submit = IdleSubmit
    /\ logs = IdleLogs
    /\ listing = IdleListing
    /\ pipeline = IdlePipeline
    /\ runner = IdleRunner
    /\ storage = IdleStorage
    /\ cluster = IdleCluster

RunDataprocTemplate ==
    /\ template_run.active /\ ~template_run.called
    /\ \E update \in UpdateRuns, cli \in StartRuns :
         LET out == run_dataproc_template(template_run.language, template_run.template_name,
                        template_run.input_params, template_run.template_params,
                        template_run.TRANSFORMATION_SQL, update, cli)
         IN  template_run' = [template_run EXCEPT !.called = TRUE, !.raised = out.raised,
                                  !.exc = out.exc, !.result = out.result,
                                  !.validation = out.validation, !.cmd = out.cmd,
                                  !.temp_dir = out.temp_dir]
    /\ UNCHANGED <<validator, sanitizer, submit, logs, listing, pipeline, runner, storage, cluster>>

NextTemplateRun == RunDataprocTemplate

SpecTemplateRun == InitTemplateRun /\ [][NextTemplateRun]_vars

(***************************************************************************)
(* Listings: one call of a listing tool against what the API answers       *)
(***************************************************************************)
InitListing ==
    /\ listing \in {[IdleListing EXCEPT !.active = TRUE, !.service = "dataflow", !.api = a] :
                       a \in DataflowApiAnswers}
                   \cup {[IdleListing EXCEPT !.active = TRUE, !.service = "dataproc", !.api = a] :
                            a \in BatchApiAnswers}
    /\ validator = IdleValidator
    /\ sanitizer = IdleSanitizer
    /\ submit = IdleSubmit
    /\ logs = IdleLogs
    /\ template_run = IdleTemplateRun
    /\ pipeline = IdlePipeline
    /\ runner = IdleRunner
    /\ storage = IdleStorage
    /\ cluster = IdleCluster

ListDataflowJobs ==
    /\ listing.active /\ listing.tool = "" /\ listing.service = "dataflow"
    /\ \E status \in JobStatuses :
         listing' = [listing EXCEPT !.tool = "list_dataflow_jobs", !.status = status,
                         !.out = list_dataflow_jobs("my-project", "", status, listing.api)]
    /\ UNCHANGED <<validator, sanitizer, submit, logs, template_run, pipeline, runner, storage, cluster>>

ListDataprocServerlessBatches ==
    /\ listing.active /\ listing.tool = "" /\ listing.service = "dataproc"
    /\ listing' = [listing EXCEPT !.tool = "list_dataproc_serverless_batches",
                       !.out = list_dataproc_serverless_batches("my-project", "us-central1",
                                                                listing.api)]
    /\ UNCHANGED <<validator, sanitizer, submit, logs, template_run, pipeline, runner, storage, cluster>>

ListDataprocServerlessBatchesByState ==
    /\ listing.active /\ listing.tool = "" /\ listing.service = "dataproc"
    /\ \E state \in BatchStates :
         listing' = [listing EXCEPT !.tool = "list_dataproc_serverless_batches_by_state",
                         !.status = state,
                         !.out = list_dataproc_serverless_batches_by_state(
                                     "my-project", "us-central1", state, listing.api)]
    /\ UNCHANGED <<validator, sanitizer, submit, logs, template_run, pipeline, runner, storage, cluster>>

NextListing ==
    \/ ListDataflowJobs
    \/ ListDataprocServerlessBatches
    \/ ListDataprocServerlessBatchesByState

SpecListing == InitListing /\ [][NextListing]_vars

(***************************************************************************)
(* Pipeline launch: two calls of create_pipeline_from_scratch that are     *)
(* given the same pipeline_args object                                     *)
(***************************************************************************)
InitPipeline ==
    /\ pipeline \in {[IdlePipeline EXCEPT !.active = TRUE, !.pc = "start", !.project_id = p, !.gcs_bucket_path = b, !.job_name = j, !.passed = a, !.pipeline_args = a] :
                        p \in ProjectIds, b \in BucketPaths, j \in PipelineJobNames, a \in PipelineArgs}
    /\ validator = IdleValidator
    /\ sanitizer = IdleSanitizer
    /\ submit = IdleSubmit
    /\ logs = IdleLogs
    /\ template_run = IdleTemplateRun
    /\ listing = IdleListing
    /\ runner = IdleRunner
    /\ storage = IdleStorage
    /\ cluster = IdleCluster

CreatePipelineFromScratch ==
    /\ pipeline.active /\ pipeline.pc \in {"start", "called"}
    /\ \E pipeline_type \in PipelineTypes, uuid_hex \in UuidHexes, proc \in ProcRuns, upload \in UploadRuns :
         LET out == create_pipeline_from_scratch(pipeline.project_id, <<"us-central1">>,
                        pipeline.gcs_bucket_path, pipeline.job_name, "import apache_beam",
                        pipeline.pipeline_args, pipeline_type, uuid_hex, proc, upload)
         IN  pipeline' = [pipeline EXCEPT
                              !.pc = IF pipeline.pc = "start" THEN "called" ELSE "recalled",
                              !.pipeline_type = pipeline_type, !.result = out.result,
                              !.full_args = out.full_args,
                              !.pipeline_args = out.pipeline_args]
    /\ UNCHANGED <<validator, sanitizer, submit, logs, template_run, listing, runner, storage, cluster>>

NextPipeline == CreatePipelineFromScratch

SpecPipeline == InitPipeline /\ [][NextPipeline]_vars

(***************************************************************************)
(* The pipeline launcher step by step: create_pipeline_from_scratch and    *)
(* generate_and_run_beam_pipeline as coroutines that share a file system   *)
(***************************************************************************)
\* os.path.join(base_path, f"temp_pipeline_{uuid.uuid4()}.py"), were the name
\* not to depend on the uuid.
TempFilenameFixed(uuid4) == <<"plumber/agent/agents/dataflow_agent", "/", "temp_pipeline", ".py">>

TempFilename(uuid4) == <<"plumber/agent/agents/dataflow_agent", "/", "temp_pipeline_", uuid4, ".py">>

\* re.search over the whole output: the first job id in it.
RECURSIVE FirstJobId(_)
FirstJobId(lines) ==
    IF lines = <<>> THEN <<>>
    ELSE IF Head(lines) # <<>> THEN Head(lines)
    ELSE FirstJobId(Tail(lines))

\* re.search(job id pattern, line), were it never to match.
MatchNever(line) == FALSE

Match(line) == line # <<>>

SetInvocation(i, inv) == runner' = [runner EXCEPT !.inv[i] = inv]

\* An invocation about to be made: the call c, the pipeline type t, and a
\* script that prints the lines o and whose output ends (e) or never does.
Ready(c, t, o, e) ==
    [IdleInvocation EXCEPT !.pc = "ready", !.project_id = c.project_id,
        !.gcs_bucket_path = c.gcs_bucket_path, !.job_name = c.job_name,
        !.pipeline_args = c.pipeline_args, !.uuid_hex = c.uuid_hex,
        !.pipeline_type = t, !.lines = o, !.eof = e]

RunnerIdleOthers ==
    /\ validator = IdleValidator
    /\ sanitizer = IdleSanitizer
    /\ submit = IdleSubmit
    /\ logs = IdleLogs
    /\ template_run = IdleTemplateRun
    /\ listing = IdleListing
    /\ pipeline = IdlePipeline
    /\ storage = IdleStorage
    /\ cluster = IdleCluster

\* One invocation, with every kind of call and of subprocess output.
InitRunner ==
    /\ runner \in {[active |-> TRUE, fs |-> {},
                    inv |-> [i \in Invocations |-> IF i = 1 THEN Ready(c, t, o, e) ELSE IdleInvocation]] :
                     c \in RunnerCalls, t \in PipelineTypes, o \in OutputLines, e \in BOOLEAN}
    /\ RunnerIdleOthers

\* _sanitize_job_name(job_name) for the calls made, tabulated.
SanitizedJobNames ==
    [n \in {<<c.job_name, c.uuid_hex>> : c \in RunnerCalls} |-> _sanitize_job_name(n[1], n[2])]

\* Where the archive of the script goes, for the bucket paths of the calls
\* made, tabulated.
ArchivePlaces ==
    [b \in RunnerBucketPaths |-> [bucket |-> ArchiveBucket(b), prefix |-> ArchivePrefix(b)]]

\* The report the invocation returns from the try block, from what it has
\* seen.
ResultOf(inv) ==
    RunReport(inv.sanitized_job_name, inv.pipeline_type,
              [returncode |-> inv.returncode, job_id |-> inv.job_id, error |-> inv.error],
              IF inv.upload.ok THEN GcsPath(inv.blob.bucket, inv.blob.name) ELSE <<>>)

\* Entry of create_pipeline_from_scratch and of generate_and_run_beam_pipeline
\* up to the try block: the argument checks, the temporary file's name and
\* full_args.
Call(i) ==
    LET inv == runner.inv[i]
        args == IF inv.pipeline_type = "streaming"
                THEN DictSet(inv.pipeline_args, "streaming", <<"true">>)
                ELSE inv.pipeline_args
        sanitized_job_name == SanitizedJobNames[<<inv.job_name, inv.uuid_hex>>]
    IN  /\ runner.active /\ inv.pc = "ready"
        /\ IF inv.pipeline_type \notin {"batch", "streaming"}
           THEN SetInvocation(i, [inv EXCEPT !.pc = "returned",
                    !.result = PipelineResult("error",
                        "Invalid pipeline type. Please choose 'batch' or 'streaming'.", <<>>, <<>>)])
           ELSE IF ArgumentError(inv.project_id, <<"us-central1">>, inv.gcs_bucket_path) # ""
           THEN SetInvocation(i, [inv EXCEPT !.pc = "returned", !.pipeline_args = args,
                    !.result = PipelineResult("error",
                        ArgumentError(inv.project_id, <<"us-central1">>, inv.gcs_bucket_path),
                        <<>>, <<>>)])
           ELSE \E uuid4 \in TempUuids :
                    /\ \A j \in Invocations : runner.inv[j].uuid4 # uuid4
                    /\ SetInvocation(i, [inv EXCEPT !.pc = "write", !.pipeline_args = args,
                           !.uuid4 = uuid4, !.temp_filename = TempFilename(uuid4),
                           !.sanitized_job_name = sanitized_job_name,
                           !.full_args = FullArgs(inv.project_id, <<"us-central1">>,
                                             inv.gcs_bucket_path, sanitized_job_name, args)])
        /\ UNCHANGED <<validator, sanitizer, submit, logs, template_run, listing, pipeline, storage, cluster>>

\* with open(temp_filename, "w") as f: f.write(pipeline_code).  The write
\* may fail, before or after the file was created.
WriteScript(i) ==
    LET inv == runner.inv[i]
    IN  /\ runner.active /\ inv.pc = "write"
        /\ \E created \in BOOLEAN, failed \in BOOLEAN :
             /\ ~failed => created
             /\ runner' = [runner EXCEPT
                    !.fs = IF created THEN @ \cup {inv.temp_filename} ELSE @,
                    !.inv[i] = [inv EXCEPT
                        !.pc = IF failed THEN "finally" ELSE "spawn",
                        !.wrote = IF created THEN @ \cup {inv.temp_filename} ELSE @,
                        !.error = IF failed THEN "[Errno 28] No space left on device" ELSE @]]
        /\ UNCHANGED <<validator, sanitizer, submit, logs, template_run, listing, pipeline, storage, cluster>>

\* command = [sys.executable, temp_filename, --key, value, ...] and
\* asyncio.create_subprocess_exec(*command), which may fail to start it.
Spawn(i) ==
    LET inv == runner.inv[i]
        command == [script |-> inv.temp_filename, args |-> inv.full_args]
    IN  /\ runner.active /\ inv.pc = "spawn"
        /\ \/ SetInvocation(i, [inv EXCEPT !.command = command, !.process = "running",
                  !.pc = IF inv.pipeline_type = "streaming" THEN "read" ELSE "communicate"])
           \/ SetInvocation(i, [inv EXCEPT !.command = command, !.pc = "finally",
                  !.error = "[Errno 11] Resource temporarily unavailable"])
        /\ UNCHANGED <<validator, sanitizer, submit, logs, template_run, listing, pipeline, storage, cluster>>

\* One turn of 'async for line_bytes in process.stdout': the next line, with
\* the break at a job id, or the end of the output.  When the output is
\* over the subprocess may have exited, with the event loop knowing
\* ("exited") or not yet ("gone"), or still run.
ReadLine(i) ==
    LET inv == runner.inv[i]
        more == inv.read < Len(inv.lines)
        line == inv.lines[inv.read + 1]
        last == inv.read + 1 >= Len(inv.lines) /\ inv.eof
    IN  /\ runner.active /\ inv.pc = "read"
        /\ more \/ inv.eof
        /\ IF more /\ ~Match(line)
           THEN SetInvocation(i, [inv EXCEPT !.read = @ + 1])
           ELSE \E process \in {"running", "exited", "gone"} :
                    /\ process # "running" => IF more THEN last ELSE TRUE
                    /\ SetInvocation(i, [inv EXCEPT
                           !.read = IF more THEN @ + 1 ELSE @,
                           !.job_id = IF more THEN line ELSE @,
                           !.process = process, !.pc = "after_loop"])
        /\ UNCHANGED <<validator, sanitizer, submit, logs, template_run, listing, pipeline, storage, cluster>>

\* if process.returncode is None: process.terminate() (ProcessLookupError
\* is passed over), then the wait of at most 10 seconds begins.
Terminate(i) ==
    LET inv == runner.inv[i]
    IN  /\ runner.active /\ inv.pc = "after_loop"
        /\ SetInvocation(i,
               IF inv.process = "running"
               THEN [inv EXCEPT !.signals = Append(@, "SIGTERM"), !.pc = "wait"]
               ELSE [inv EXCEPT !.pc = "check_match"])
        /\ UNCHANGED <<validator, sanitizer, submit, logs, template_run, listing, pipeline, storage, cluster>>

\* await asyncio.wait_for(process.wait(), timeout=10): the subprocess exits
\* in time.
WaitReturns(i) ==
    LET inv == runner.inv[i]
    IN  /\ runner.active /\ inv.pc = "wait"
        /\ SetInvocation(i, [inv EXCEPT !.process = "terminated", !.pc = "check_match"])
        /\ UNCHANGED <<validator, sanitizer, submit, logs, template_run, listing, pipeline, storage, cluster>>

\* except asyncio.TimeoutError: process.kill()
WaitTimesOut(i) ==
    LET inv == runner.inv[i]
    IN  /\ runner.active /\ inv.pc = "wait"
        /\ SetInvocation(i, [inv EXCEPT !.signals = Append(@, "SIGKILL"),
                                        !.process = "killed", !.pc = "check_match"])
        /\ UNCHANGED <<validator, sanitizer, submit, logs, template_run, listing, pipeline, storage, cluster>>

\* if not job_id_match: await process.communicate(); raise
\* CalledProcessError.  The subprocess is over or has been signalled.
CheckMatch(i) ==
    LET inv == runner.inv[i]
    IN  /\ runner.active /\ inv.pc = "check_match"
        /\ SetInvocation(i, [inv EXCEPT !.pc = IF inv.job_id = <<>> THEN "finally" ELSE "upload",
                                        !.returncode = IF inv.job_id = <<>> THEN 1 ELSE @])
        /\ UNCHANGED <<validator, sanitizer, submit, logs, template_run, listing, pipeline, storage, cluster>>

\* Batch: await process.communicate() returns when the subprocess is over;
\* then the exit status is looked at and the output searched.
Communicate(i) ==
    LET inv == runner.inv[i]
    IN  /\ runner.active /\ inv.pc = "communicate"
        /\ inv.eof
        /\ \E returncode \in {0, 1} :
             LET job_id == IF returncode = 0 THEN FirstJobId(inv.lines) ELSE <<>>
             IN  SetInvocation(i, [inv EXCEPT !.read = Len(inv.lines), !.process = "exited",
                     !.returncode = returncode, !.job_id = job_id,
                     !.pc = IF job_id = <<>> THEN "finally" ELSE "upload"])
        /\ UNCHANGED <<validator, sanitizer, submit, logs, template_run, listing, pipeline, storage, cluster>>

\* The archival of the script: blob.upload_from_string succeeds or raises.
Upload(i) ==
    LET inv == runner.inv[i]
    IN  /\ runner.active /\ inv.pc = "upload"
        /\ \E upload \in UploadRuns :
             SetInvocation(i, [inv EXCEPT !.pc = "finally", !.upload = upload,
                 !.blob = IF upload.ok
                          THEN [bucket |-> ArchivePlaces[inv.gcs_bucket_path].bucket,
                                name |-> ArchiveName(ArchivePlaces[inv.gcs_bucket_path].prefix,
                                             inv.sanitized_job_name, upload.uuid_hex)]
                          ELSE @])
        /\ UNCHANGED <<validator, sanitizer, submit, logs, template_run, listing, pipeline, storage, cluster>>

\* finally: if os.path.exists(temp_filename): os.remove(temp_filename);
\* then the call returns its report.
Finally(i) ==
    LET inv == runner.inv[i]
        exists == inv.temp_filename \in runner.fs
    IN  /\ runner.active /\ inv.pc = "finally"
        /\ runner' = [runner EXCEPT
               !.fs = @ \ {inv.temp_filename},
               !.inv[i] = [inv EXCEPT !.pc = "returned", !.result = ResultOf(inv),
                              !.removed = IF exists THEN @ \cup {inv.temp_filename} ELSE @]]
        /\ UNCHANGED <<validator, sanitizer, submit, logs, template_run, listing, pipeline, storage, cluster>>

Step(i) ==
    \/ Call(i) \/ WriteScript(i) \/ Spawn(i) \/ ReadLine(i) \/ Terminate(i)
    \/ WaitReturns(i) \/ WaitTimesOut(i) \/ CheckMatch(i) \/ Communicate(i)
    \/ Upload(i) \/ Finally(i)

NextRunner == \E i \in Invocations : Step(i)

SpecRunner == InitRunner /\ [][NextRunner]_vars

\* The event loop runs every coroutine that can go on.
SpecRunnerFair == SpecRunner /\ \A i \in Invocations : WF_vars(Step(i))

\* Two invocations at once, each a valid call.
ConcurrentCalls == {c \in RunnerCalls : c.pipeline_args = <<>> /\ c.job_name # <<>> /\ c.gcs_bucket_path = GsScheme \o <<"b", "k", "t">> /\ c.project_id # <<>>}

ConcurrentOutputs == {<<JobIdA>>, << <<>> >>}

InitConcurrent ==
    /\ runner \in {[active |-> TRUE, fs |-> {}, inv |-> [i \in Invocations |-> Ready(c[i], t[i], o[i], TRUE)]] :
                     c \in [Invocations -> ConcurrentCalls],
                     t \in [Invocations -> {"batch", "streaming"}],
                     o \in [Invocations -> ConcurrentOutputs]}
    /\ RunnerIdleOthers

SpecConcurrent == InitConcurrent /\ [][NextRunner]_vars

(***************************************************************************)
(* Bucket names: one call of _sanitize_bucket_name followed by             *)
(* _validate_bucket_name, or of upload_repository_to_gcs                   *)
(***************************************************************************)
StorageIdleOthers ==
    /\ validator = IdleValidator
    /\ sanitizer = IdleSanitizer
    /\ submit = IdleSubmit
    /\ logs = IdleLogs
    /\ template_run = IdleTemplateRun
    /\ listing = IdleListing
    /\ pipeline = IdlePipeline
    /\ runner = IdleRunner
    /\ cluster = IdleCluster

InitBucketName ==
    /\ storage \in {[IdleStorage EXCEPT !.active = TRUE, !.name = n] : n \in BucketNameInputs}
    /\ StorageIdleOthers

SanitizeBucketName ==
    /\ storage.active /\ storage.tool = "" /\ storage.bucket.pc = "idle"
    /\ LET name == _sanitize_bucket_name(storage.name)
       IN  storage' = [storage EXCEPT !.tool = "_sanitize_bucket_name", !.sanitized = name,
                                      !.validation = _validate_bucket_name(name)]
    /\ UNCHANGED <<validator, sanitizer, submit, logs, template_run, listing, pipeline, runner, cluster>>

UploadRepositoryToGcs ==
    /\ storage.active /\ storage.tool = "" /\ storage.bucket.pc = "idle"
    /\ \E path \in {"missing", "file", "dir"}, gcs_ok \in BOOLEAN :
         LET out == upload_repository_to_gcs(path, storage.name, gcs_ok)
         IN  storage' = [storage EXCEPT !.tool = "upload_repository_to_gcs",
                            !.sanitized = out.bucket_name, !.validation = out.validation,
                            !.result = out.result]
    /\ UNCHANGED <<validator, sanitizer, submit, logs, template_run, listing, pipeline, runner, cluster>>

NextBucketName == SanitizeBucketName \/ UploadRepositoryToGcs

SpecBucketName == InitBucketName /\ [][NextBucketName]_vars

(***************************************************************************)
(* delete_gcs_bucket, call by call to Cloud Storage                        *)
(***************************************************************************)
InitDeleteBucket ==
    /\ storage \in {[IdleStorage EXCEPT !.active = TRUE, !.tool = "delete_gcs_bucket",
                        !.bucket = [IdleBucket EXCEPT !.pc = "ready", !.force = f, !.exists = e,
                                       !.initial = o, !.objects = o]] :
                      f \in BOOLEAN, e \in BOOLEAN, o \in BucketContents}
    /\ StorageIdleOthers

SetBucket(bucket) == storage' = [storage EXCEPT !.bucket = bucket]

\* client = _get_gcs_client(); bucket = client.get_bucket(bucket_name); with
\* force, bucket.list_blobs.
GetBucket ==
    LET bucket == storage.bucket
    IN  /\ storage.active /\ bucket.pc = "ready"
        /\ \/ /\ ~bucket.exists
              /\ SetBucket([bucket EXCEPT !.pc = "returned",
                     !.result = StorageResult("error", "Bucket '{bucket_name}' not found", 0)])
           \/ /\ bucket.exists
              /\ SetBucket([bucket EXCEPT !.pc = "returned",
                     !.result = StorageResult("error",
                         "Access denied to bucket '{bucket_name}'. Check your permissions.", 0)])
           \/ /\ bucket.exists /\ bucket.force
              /\ \/ SetBucket([bucket EXCEPT !.pc = "objects", !.listed = bucket.objects])
                 \/ SetBucket([bucket EXCEPT !.pc = "returned",
                        !.result = StorageResult("error",
                            "Failed to list/delete objects in bucket: {e}", 0)])
           \/ /\ bucket.exists /\ ~bucket.force
              /\ SetBucket([bucket EXCEPT !.pc = "bucket"])
        /\ UNCHANGED <<validator, sanitizer, submit, logs, template_run, listing, pipeline, runner, cluster>>

\* One turn of 'for blob in blobs': blob.delete succeeds and the name is
\* appended to deleted_objects, or it fails; after the last blob the loop
\* is left.
DeleteObject ==
    LET bucket == storage.bucket
        blob == Head(bucket.listed)
    IN  /\ storage.active /\ bucket.pc = "objects"
        /\ IF bucket.listed = <<>>
           THEN SetBucket([bucket EXCEPT !.pc = "bucket"])
           ELSE \/ SetBucket([bucket EXCEPT !.listed = Tail(@),
                       !.objects = SelectSeq(@, LAMBDA name : name # blob),
                       !.deleted_objects = Append(@, blob),
                       !.calls = Append(@, StorageCall("blob.delete", blob, ""))])
                \/ SetBucket(ObjectDeleteFailed(
                       [bucket EXCEPT !.calls = Append(@, StorageCall("blob.delete", blob, "GoogleAPIError"))]))
        /\ UNCHANGED <<validator, sanitizer, submit, logs, template_run, listing, pipeline, runner, cluster>>

\* bucket.delete: Cloud Storage refuses (Conflict) while the bucket holds an
\* object; it may also deny the deletion (Forbidden).
DeleteBucket ==
    LET bucket == storage.bucket
    IN  /\ storage.active /\ bucket.pc = "bucket"
        /\ \/ /\ bucket.objects # <<>>
              /\ SetBucket([bucket EXCEPT !.pc = "returned",
                     !.calls = Append(@, StorageCall("bucket.delete", "", "Conflict")),
                     !.result = StorageResult("error",
                         "Bucket '{bucket_name}' is not empty. Use force=True to delete all objects first.", 0)])
           \/ /\ bucket.objects = <<>>
              /\ SetBucket([bucket EXCEPT !.pc = "returned", !.exists = FALSE,
                     !.calls = Append(@, StorageCall("bucket.delete", "", "")),
                     !.result = StorageResult("success", "Bucket '{bucket_name}' deleted successfully",
                                              Len(bucket.deleted_objects))])
           \/ SetBucket([bucket EXCEPT !.pc = "returned",
                  !.calls = Append(@, StorageCall("bucket.delete", "", "Forbidden")),
                  !.result = StorageResult("error",
                      "Access denied to bucket '{bucket_name}'. Check your permissions.", 0)])
        /\ UNCHANGED <<validator, sanitizer, submit, logs, template_run, listing, pipeline, runner, cluster>>

NextDeleteBucket == GetBucket \/ DeleteObject \/ DeleteBucket

SpecDeleteBucket == InitDeleteBucket /\ [][NextDeleteBucket]_vars

(***************************************************************************)
(* Cluster update: one call of update_cluster                              *)
(***************************************************************************)
InitCluster ==
    /\ cluster \in {[IdleCluster EXCEPT !.active = TRUE, !.num_workers = n, !.before = c, !.workers = c] :
                      n \in {NoWorkers} \cup {Workers(k) : k \in 0..MaxWorkers}, c \in 0..MaxWorkers}
    /\ validator = IdleValidator
    /\ sanitizer = IdleSanitizer
    /\ submit = IdleSubmit
    /\ logs = IdleLogs
    /\ template_run = IdleTemplateRun
    /\ listing = IdleListing
    /\ pipeline = IdlePipeline
    /\ runner = IdleRunner
    /\ storage = IdleStorage

UpdateCluster ==
    /\ cluster.active /\ ~cluster.called
    /\ \E api \in {a \in ClusterApis : a.current = cluster.before} :
         LET out == update_cluster("my-project", "us-central1", "my-cluster",
                                   cluster.num_workers, api)
         IN  cluster' = [cluster EXCEPT !.called = TRUE, !.workers = out.workers,
                            !.requests = out.requests, !.result = out.result]
    /\ UNCHANGED <<validator, sanitizer, submit, logs, template_run, listing, pipeline, runner, storage>>

NextCluster == UpdateCluster

SpecCluster == InitCluster /\ [][NextCluster]_vars

(***************************************************************************)
(* The tools whose error handling is compared, and the two launchers       *)
(***************************************************************************)
SpecToolErrors == (InitTemplateRun \/ InitListing) /\ [][NextTemplateRun \/ NextListing]_vars

SpecLaunch == (InitSubmit \/ InitTemplateRun) /\ [][NextSubmit \/ NextTemplateRun]_vars

(***************************************************************************)
(* The whole: any one of the calls above                                   *)
(***************************************************************************)
Init ==
    \/ InitValidate \/ InitSanitize \/ InitSubmit \/ InitLogs
    \/ InitTemplateRun \/ InitListing \/ InitPipeline
    \/ InitRunner \/ InitConcurrent
    \/ InitBucketName \/ InitDeleteBucket \/ InitCluster

Next ==
    \/ NextValidate \/ NextSanitize \/ NextSubmit \/ NextLogs
    \/ NextTemplateRun \/ NextListing \/ NextPipeline
    \/ NextRunner
    \/ NextBucketName \/ NextDeleteBucket \/ NextCluster

Spec == Init /\ [][Next]_vars

(***************************************************************************)
(* Properties of the parameter validators                                  *)
(***************************************************************************)
\* The names a well-formed definition lists under key (none when absent).
Listed(key) ==
    IF key \in validator.template_definition.keys
    THEN Range(IF key = "required" THEN validator.template_definition.required.elems
                                   ELSE validator.template_definition.optional.elems)
    ELSE {}

\* The definition is a dict whose required/optional are lists and the user
\* input is a mapping.
WellFormedArgs ==
    /\ validator.template_definition.kind = "dict"
    /\ validator.template_definition.required.kind = "list"
    /\ validator.template_definition.optional.kind = "list"
    /\ validator.user_inputs.kind = "dict"

UserKeySet == Keys(validator.user_inputs.items)

ShouldSucceed ==
    /\ UserKeySet \subseteq (Listed("required") \cup Listed("optional"))
    /\ Listed("required") \subseteq UserKeySet

Succeeded(out) == ~out.raised /\ out.value.validation_result = "success"

\* C1: for a definition with required/optional lists and a user-input mapping,
\* each validator returns 'success' exactly when the user's keys are all
\* defined and every required key is given; and on the same arguments the
\* Dataflow and the Dataproc-template validator agree on success or failure.
C1_SuccessIffKeysFit ==
    /\ WellFormedArgs =>
         /\ validator.dataflow.called => (Succeeded(validator.dataflow) <=> ShouldSucceed)
         /\ validator.dataproc.called => (Succeeded(validator.dataproc) <=> ShouldSucceed)
    /\ (validator.dataflow.called /\ validator.dataproc.called) =>
         (Succeeded(validator.dataflow) <=> Succeeded(validator.dataproc))

\* Both validators accepted an input that gives the required key and an
\* optional one.
C1_Witness ==
    /\ WellFormedArgs
    /\ validator.dataflow.called /\ validator.dataproc.called
    /\ Succeeded(validator.dataflow) /\ Succeeded(validator.dataproc)
    /\ Listed("required") # {}
    /\ UserKeySet \ Listed("required") # {}

\* C10: a validator never raises: every call returns a result, and for
\* malformed arguments (a definition or input that is no mapping, a
\* required/optional that is no list) the result is 'failed' with the text of
\* the exception in its comment.
C10_ValidationNeverRaises ==
    \A out \in {validator.dataflow, validator.dataproc} :
        out.called =>
            /\ ~out.raised
            /\ out.value.validation_result \in {"success", "failed"}
            /\ ~WellFormedArgs =>
                 /\ out.value.validation_result = "failed"
                 /\ out.value.comment.err # <<>>
                 /\ out.value.comment.err =
                        ValidationError(validator.template_definition, validator.user_inputs)

\* Both validators were called with a definition that is None and reported it.
C10_Witness ==
    /\ validator.template_definition.kind = "NoneType"
    /\ validator.dataflow.called /\ validator.dataproc.called
    /\ validator.dataflow.value.validation_result = "failed"
    /\ validator.dataflow.value.comment.err = NoAttribute("NoneType", "get")
    /\ validator.dataproc.value.comment.err = NoAttribute("NoneType", "get")

InvalidKeys == UserKeySet \ (Listed("required") \cup Listed("optional"))

MissingKeys == Listed("required") \ UserKeySet

MissingRequiredTexts == {"Missing required param(s): {missing}", "Missing required params"}

\* C19: a validator looks for invalid keys before missing ones: with a user
\* key outside required and optional the result is 'failed' and its comment
\* reports the invalid keys and the full valid set, also when required keys
\* are missing too; the 'missing required' failure comes only when no key is
\* invalid.  With required and optional absent or empty every non-empty
\* input fails as invalid; an empty input with a non-empty required fails as
\* missing required.
C19_InvalidBeforeMissing ==
    WellFormedArgs =>
        \A out \in {validator.dataflow, validator.dataproc} :
            out.called =>
                /\ InvalidKeys # {} =>
                     /\ out.value.validation_result = "failed"
                     /\ out.value.comment.text \notin MissingRequiredTexts
                     /\ out.value.comment.invalid = InvalidKeys
                     /\ Range(out.value.comment.valid) = Listed("required") \cup Listed("optional")
                /\ out.value.comment.text \in MissingRequiredTexts =>
                     /\ InvalidKeys = {}
                     /\ MissingKeys # {}
                /\ (InvalidKeys = {} /\ MissingKeys # {}) =>
                     /\ out.value.validation_result = "failed"
                     /\ out.value.comment.text \in MissingRequiredTexts

(***************************************************************************)
(* Properties of the job-name sanitizer                                    *)
(***************************************************************************)
\* Length at most 63, first character a lowercase letter, last character a
\* lowercase letter or digit, only lowercase letters, digits and hyphens.
IsValidJobName(str) ==
    /\ Len(str) >= 1
    /\ Len(str) <= MaxJobNameLen
    /\ str[1] \in LowerSet
    /\ str[Len(str)] \in LowerSet \cup DigitChars
    /\ \A i \in DOMAIN str : str[i] \in LowerSet \cup DigitChars \cup {"-"}

\* C2: for every input the sanitizer's result is at most 63 characters long,
\* starts with a lowercase letter, ends with a letter or digit and holds only
\* lowercase letters, digits and hyphens.
C2_ResultIsValidJobName ==
    sanitizer.pc \in {"sanitized", "resanitized"} => IsValidJobName(sanitizer.first)

\* C3: the sanitizer is idempotent: sanitizing its result gives the result.
C3_Idempotent ==
    sanitizer.pc = "resanitized" => sanitizer.second = sanitizer.first

(***************************************************************************)
(* Properties of submit_dataflow_template                                  *)
(***************************************************************************)
\* The descriptor the call works with is a dict (given as one, or first in a list).
DescriptorIsDict ==
    submit.template_params.kind \in {"dict", "list"} /\ Len(submit.template_params.elems) > 0

SubmittedDescriptor == submit.template_params.elems[1]

\* The template path the launch uses.
LaunchPath ==
    IF submit.custom_gcs_path # <<>> THEN submit.custom_gcs_path
    ELSE SubmittedDescriptor.template_gcs_path

DeclaresFlex ==
    DescriptorIsDict /\ "type" \in SubmittedDescriptor.keys /\ SubmittedDescriptor.type = "FLEX"

FlexShape == "gcloud dataflow flex-template run"

ClassicShape == "gcloud dataflow jobs run"

\* C4: the command built is of the Flex shape exactly when the launch path
\* contains '/flex/' or the descriptor has type 'FLEX', and of the classic
\* shape in every other case.
C4_FlexIffPathOrType ==
    submit.run.launched =>
        LET flex == Contains(LaunchPath, FlexSegment) \/ DeclaresFlex
        IN  /\ submit.cmd.prog \in {FlexShape, ClassicShape}
            /\ submit.cmd.prog = FlexShape <=> flex

\* A descriptor of type 'FLEX' with a path without '/flex/' was launched as
\* Flex.
C4_Witness ==
    /\ submit.run.launched
    /\ DeclaresFlex
    /\ ~Contains(LaunchPath, FlexSegment)
    /\ submit.cmd.prog = FlexShape

\* The returned dict holds the text (if there is any): as its stdout or in
\* its comment.
Carries(result, text) ==
    \/ text = ""
    \/ "stdout" \in result.keys /\ result.stdout = text
    \/ result.comment.text = text
    \/ text \in Range(result.comment.err.text)

\* C5: when the launched gcloud command exits non-zero the tool returns
\* status 'failed' and the result carries the command's stdout and stderr.
C5_FailureCarriesCliOutput ==
    (submit.run.launched /\ submit.run.returncode # 0) =>
        /\ submit.result.status = "failed"
        /\ Carries(submit.result, submit.run.stdout)
        /\ Carries(submit.result, submit.run.stderr)

ValidationFailureTexts ==
    { "Job could not be submitted due to a parameter validation error: {comment}",
      "Job could not be submitted because the template definition is missing the \"params\" key." }

\* C6: with a non-empty custom_gcs_path the validator is not run and no
\* validation failure is returned; for any user parameter mapping and any
\* descriptor the command is built and executed.
C6_CustomPathSkipsValidation ==
    (submit.called /\ submit.custom_gcs_path # <<>>) =>
        /\ ~submit.validation.called
        /\ submit.result.comment.text \notin ValidationFailureTexts
        /\ (submit.input_params.kind = "dict" /\ DescriptorIsDict) =>
               /\ submit.run.launched
               /\ submit.cmd.prog \in {FlexShape, ClassicShape}

\* A launch with a custom path, a key the template does not define and a
\* descriptor without 'params'.
C6_Witness ==
    /\ submit.called /\ submit.custom_gcs_path # <<>>
    /\ submit.run.launched
    /\ "bogus" \in Keys(submit.input_params.items)
    /\ DescriptorIsDict /\ "params" \notin SubmittedDescriptor.keys

\* The values the launched command gives for an option.
OptValues(name) == {o.val : o \in {x \in Range(submit.cmd.opts) : x.opt = name}}

HasOpt(name) == OptValues(name) # {}

UserItems == submit.input_params.items

\* C13: the --parameters value of a launched command is '^###^' followed by
\* the 'key=value' pairs of the user mapping in the mapping's order, joined
\* by '###': no comma separates pairs, an empty mapping gives exactly
\* '^###^', and every user key appears exactly once.
C13_ParametersEncoding ==
    submit.run.launched =>
        \E p \in OptValues("--parameters") :
            LET n == Len(UserItems)
            IN  /\ OptValues("--parameters") = {p}
                /\ Len(p) = 3 + (IF n = 0 THEN 0 ELSE 4 * n - 1)
                /\ SubSeq(p, 1, 3) = <<"^", "###", "^">>
                /\ \A i \in 1..n :
                     /\ p[4 * i] = UserItems[i][1]
                     /\ p[4 * i + 1] = "="
                     /\ p[4 * i + 2] = UserItems[i][2]
                /\ \A i \in 1..(n - 1) : p[4 * i + 3] = "###"
                /\ \A key \in Keys(UserItems) :
                     Cardinality({i \in 1..n : p[4 * i] = key}) = 1

\* A launch with two user parameters, one of them with a comma in its value.
C13_Witness ==
    /\ submit.run.launched
    /\ Len(UserItems) = 2
    /\ \E i \in DOMAIN UserItems : UserItems[i][2] = "x,y"

\* C14: a launched Flex command gives the template path under
\* --template-file-gcs-location and has neither --staging-location nor
\* --gcs-location; a launched classic command gives the path under
\* --gcs-location and has --staging-location=<gcs_staging_location>; both
\* have the job name, --project, --region, --parameters and
\* --additional-user-labels.
C14_CommandShapes ==
    submit.run.launched =>
        /\ submit.cmd.prog \in {FlexShape, ClassicShape}
        /\ submit.cmd.job = submit.job_name
        /\ OptValues("--project") = {<<submit.gcp_project>>}
        /\ OptValues("--region") = {<<submit.region>>}
        /\ HasOpt("--parameters")
        /\ HasOpt("--additional-user-labels")
        /\ submit.cmd.prog = FlexShape =>
             /\ OptValues("--template-file-gcs-location") = {LaunchPath}
             /\ ~HasOpt("--staging-location")
             /\ ~HasOpt("--gcs-location")
        /\ submit.cmd.prog = ClassicShape =>
             /\ OptValues("--gcs-location") = {LaunchPath}
             /\ OptValues("--staging-location") = {<<submit.gcs_staging_location>>}
             /\ ~HasOpt("--template-file-gcs-location")

\* A Flex launch: the path is under --template-file-gcs-location and no
\* staging location is given.
C14_Witness ==
    /\ submit.run.launched
    /\ submit.cmd.prog = FlexShape
    /\ OptValues("--template-file-gcs-location") = {LaunchPath}
    /\ ~HasOpt("--staging-location")

(***************************************************************************)
(* Properties of the log tools                                             *)
(***************************************************************************)
\* C7: every filter a log tool sends has the clause timestamp >= now - 90 days.
C7_FilterHasLookback ==
    logs.query.sent =>
        \E i \in DOMAIN logs.query.filter_ :
            logs.query.filter_[i] = TimestampClause(logs.now - LookbackDays)

\* The tokens of the severity list found in the caller's text, by position.
MatchingTokens ==
    {i \in DOMAIN SEVERITIES_LIST :
        ~logs.severity.is_none
        /\ Contains(StrUpper(logs.severity.text), SEVERITIES_LIST[i])}

FirstMatch == SEVERITIES_LIST[CHOOSE i \in MatchingTokens : \A j \in MatchingTokens : i <= j]

\* C8: get_latest_resource_based_logs appends the one clause
\* 'severity=<matched>', <matched> the first token of the severity list found
\* in the caller's text, and appends nothing when no token is found.
C8_SeverityClauseIsMatchedToken ==
    logs.tool = "get_latest_resource_based_logs" =>
        LET appended == Tail(logs.query.filter_)
        IN  IF MatchingTokens = {}
            THEN appended = <<>>
            ELSE /\ Len(appended) = 1
                 /\ appended[1].text = <<"s", "e", "v", "e", "r", "i", "t", "y", "=">> \o FirstMatch

\* C9: the entries a log tool returns are capped at the caller's _limit: never
\* more, and exactly _limit when at least that many are available.
C9_CappedAtCallerLimit ==
    (logs.tool # "" /\ ~logs.api_fails) =>
        /\ Len(logs.result.entries) <= logs._limit
        /\ logs.available >= logs._limit => Len(logs.result.entries) = logs._limit

(***************************************************************************)
(* Properties of the tools' error handling                                 *)
(***************************************************************************)
\* C11: no tool lets an exception reach its caller: every call of
\* run_dataproc_template returns a dict with status 'success' or 'failed'
\* (also when the error comes before the run command is built), and every
\* call of list_dataflow_jobs, list_dataproc_serverless_batches and
\* list_dataproc_serverless_batches_by_state returns a value, whatever error
\* the API raised.
C11_NoExceptionEscapes ==
    /\ template_run.called =>
         /\ ~template_run.raised
         /\ template_run.result.status \in {"success", "failed"}
    /\ listing.tool # "" => ~listing.out.raised

ClusterLogTools == {"get_dataproc_cluster_logs_with_name", "get_dataproc_cluster_logs_with_id"}

\* C12: when the Cloud Logging call fails in a cluster-log tool, the result
\* has status 'error' and a message with the error; it is not 'success' and
\* not 'No log entries found'.
C12_FailedFetchIsError ==
    (logs.tool \in ClusterLogTools /\ logs.api_fails) =>
        /\ logs.result.status = "error"
        /\ logs.result.message # ""
        /\ logs.result.report # "No log entries found matching the criteria."

\* The (resource.type, label key) pair by which each tool names its resource.
ToolResource ==
    [t \in {"get_dataflow_job_logs_with_id", "get_dataproc_cluster_logs_with_name", "get_dataproc_cluster_logs_with_id", "get_dataproc_job_logs_with_id"} |->
        CASE t = "get_dataflow_job_logs_with_id" -> <<"dataflow_step", "job_id">>
          [] t = "get_dataproc_cluster_logs_with_name" -> <<"cloud_dataproc_cluster", "cluster_name">>
          [] t = "get_dataproc_cluster_logs_with_id" -> <<"cloud_dataproc_cluster", "cluster_uuid">>
          [] t = "get_dataproc_job_logs_with_id" -> <<"cloud_dataproc_batch", "batch_id">>]

C16_ArgumentsUnchanged ==
    pipeline.pc \in {"called", "recalled"} => pipeline.pipeline_args = pipeline.passed

(***************************************************************************)
(* Further properties of the job-name sanitizer                            *)
(***************************************************************************)
\* The input is empty or has only characters outside [a-z0-9] once lowered.
ReducesToEmpty(name) == \A i \in DOMAIN name : LowerChar(name[i]) \notin LowerSet \cup DigitChars

HexChars == DigitChars \cup {"a", "b", "c", "d", "e", "f"}

IsPlaceholder(str) ==
    /\ Len(str) = Len(JobPrefix) + 8
    /\ SubSeq(str, 1, Len(JobPrefix)) = JobPrefix
    /\ \A i \in (Len(JobPrefix) + 1)..Len(str) : str[i] \in HexChars

\* C17: for an input that does not reduce to empty, two calls of the
\* sanitizer give the same string; for an input that reduces to empty, the
\* result is 'job-' followed by exactly 8 hexadecimal characters.
C17_DeterministicUnlessEmpty ==
    /\ (sanitizer.pc # "idle" /\ sanitizer.pc # "start" /\ sanitizer.twinned) =>
         (~ReducesToEmpty(sanitizer.name) => sanitizer.first = sanitizer.twin)
    /\ (sanitizer.pc # "idle" /\ sanitizer.pc # "start" /\ ReducesToEmpty(sanitizer.name)) =>
         IsPlaceholder(sanitizer.first)
    /\ (sanitizer.twinned /\ ReducesToEmpty(sanitizer.name)) => IsPlaceholder(sanitizer.twin)

\* Two calls for an input of hyphens and punctuation gave two different
\* placeholders.
C17_Witness ==
    /\ sanitizer.pc = "sanitized" /\ sanitizer.twinned
    /\ sanitizer.name # <<>> /\ ReducesToEmpty(sanitizer.name)
    /\ IsPlaceholder(sanitizer.first) /\ IsPlaceholder(sanitizer.twin)
    /\ sanitizer.first # sanitizer.twin

\* The name after the first four steps: lowercase, replace, collapse, strip.
Stripped(name) == StripHyphens(CollapseHyphens(ReplaceInvalid(StrLower(name))))

\* The steps from the empty fallback on, for a name whose first four steps
\* leave something: 'job-' goes in front exactly when the stripped string
\* starts with a digit, a last character that is no letter or digit is
\* dropped, and the first 63 characters are kept.
StepsInOrder ==
    (sanitizer.pc \in {"sanitized", "resanitized"} /\ Stripped(sanitizer.name) # <<>>) =>
        LET stripped == Stripped(sanitizer.name)
            prefixed == IF stripped[1] \in DigitChars THEN JobPrefix \o stripped ELSE stripped
            last == prefixed[Len(prefixed)]
            trimmed == IF last \in LowerSet \cup DigitChars THEN prefixed
                       ELSE SubSeq(prefixed, 1, Len(prefixed) - 1)
        IN  sanitizer.first = SubSeq(trimmed, 1, Min(63, Len(trimmed)))

ExamplesHold ==
    sanitizer.pc \in {"sanitized", "resanitized"} =>
        /\ sanitizer.name = <<"M", "y", " ", "J", "o", "b", "!", "!">> =>
             sanitizer.first = <<"m", "y", "-", "j", "o", "b">>
        /\ sanitizer.name = <<"1", "2", "3", "-", "s", "t", "a", "r", "t">> =>
             sanitizer.first = <<"j", "o", "b", "-", "1", "2", "3", "-", "s", "t", "a", "r", "t">>

HasHyphenRun(str) == \E i \in 1..(Len(str) - 1) : str[i] = "-" /\ str[i + 1] = "-"

\* C18 as stated: the steps are applied in the stated order, so that 'job-'
\* is prepended exactly when the stripped string starts with a digit, the
\* examples come out as documented, and every input that already is a valid
\* name of at most 63 characters is returned unchanged.
C18_ValidNameUnchanged ==
    /\ StepsInOrder
    /\ ExamplesHold
    /\ (sanitizer.pc \in {"sanitized", "resanitized"} /\ IsValidJobName(sanitizer.name)) =>
           sanitizer.first = sanitizer.name

\* C18, amended: as above, but an input that already is a valid name is
\* returned unchanged only if it has no run of two or more hyphens (a run is
\* collapsed to one hyphen).
C18_ValidNameWithoutRunsUnchanged ==
    /\ StepsInOrder
    /\ ExamplesHold
    /\ (sanitizer.pc \in {"sanitized", "resanitized"} /\ IsValidJobName(sanitizer.name)
          /\ ~HasHyphenRun(sanitizer.name)) =>
           sanitizer.first = sanitizer.name

\* A valid name of full length, with a hyphen inside, came back unchanged.
C18_Witness ==
    /\ sanitizer.pc = "sanitized"
    /\ IsValidJobName(sanitizer.name)
    /\ Len(sanitizer.name) = 63
    /\ "-" \in Range(sanitizer.name)
    /\ sanitizer.first = sanitizer.name

(***************************************************************************)
(* Validation before launch                                               *)
(***************************************************************************)
\* The descriptor names a template path.
PathPresent ==
    /\ DescriptorIsDict
    /\ "template_gcs_path" \in SubmittedDescriptor.keys
    /\ SubmittedDescriptor.template_gcs_path # <<>>

ParamsPresent == DescriptorIsDict /\ "params" \in SubmittedDescriptor.keys

\* C20: without a custom path submit_dataflow_template runs the gcloud
\* command only when the descriptor has a template_gcs_path and a 'params'
\* key and the validator returned success; if one of the three fails the
\* result is 'failed' and no command is run.  Likewise run_dataproc_template
\* runs start.sh only after the validator returned success, and after a
\* validation failure returns 'failed' without running it.
C20_ValidateBeforeLaunch ==
    /\ (submit.called /\ submit.custom_gcs_path = <<>>) =>
         LET ready == /\ PathPresent
                      /\ ParamsPresent
                      /\ submit.validation.called
                      /\ Succeeded(submit.validation)
         IN  /\ submit.run.launched => ready
             /\ ~ready =>
                  /\ submit.result.status = "failed"
                  /\ ~submit.run.launched
                  /\ submit.cmd = NoCommand
    /\ template_run.called =>
         /\ template_run.cmd.bound =>
              (template_run.validation.called /\ Succeeded(template_run.validation))
         /\ (template_run.validation.called /\ ~Succeeded(template_run.validation)) =>
              /\ ~template_run.raised
              /\ template_run.result.status = "failed"
              /\ ~template_run.cmd.bound

\* A call without custom path whose descriptor has path and params, whose
\* user input has an undefined key: the validator failed and nothing ran.
C20_Witness ==
    /\ submit.called /\ submit.custom_gcs_path = <<>>
    /\ PathPresent /\ ParamsPresent
    /\ submit.validation.called /\ ~Succeeded(submit.validation)
    /\ submit.result.status = "failed"
    /\ ~submit.run.launched

(***************************************************************************)
(* C21: the streaming launcher reads the output up to the first job id     *)
(***************************************************************************)
\* The index of the first line of the output that holds a job id, 0 when
\* no line does.
FirstIdLine(lines) ==
    IF \E k \in DOMAIN lines : lines[k] # <<>>
    THEN CHOOSE k \in DOMAIN lines : lines[k] # <<>> /\ \A j \in 1..(k - 1) : lines[j] = <<>>
    ELSE 0

Started(inv) == inv.process # "none"

PastLoop(inv) == inv.pc \in {"check_match", "upload", "finally", "returned"}

Launched(inv) == inv.result.status \in {"success", "success_with_warning"}

C21_StreamingStopsAtJobId(inv) ==
    (inv.pipeline_type = "streaming" /\ Started(inv)) =>
        /\ inv.read <= (IF FirstIdLine(inv.lines) = 0 THEN Len(inv.lines) ELSE FirstIdLine(inv.lines))
        /\ PastLoop(inv) =>
             /\ inv.read = (IF FirstIdLine(inv.lines) = 0 THEN Len(inv.lines) ELSE FirstIdLine(inv.lines))
             /\ inv.job_id = (IF FirstIdLine(inv.lines) = 0 THEN <<>> ELSE inv.lines[FirstIdLine(inv.lines)])
             /\ inv.process \in {"exited", "gone", "terminated", "killed"}
             /\ inv.process \in {"exited", "gone"} => inv.signals = <<>>
             /\ inv.process = "terminated" => inv.signals = <<"SIGTERM">>
             /\ inv.process = "killed" => inv.signals = <<"SIGTERM", "SIGKILL">>
        /\ inv.pc = "returned" =>
             IF FirstIdLine(inv.lines) = 0
             THEN inv.result.status = "error"
             ELSE Launched(inv) /\ inv.result.job_id = inv.lines[FirstIdLine(inv.lines)]

C21_BatchWaitsForCompletion(inv) ==
    (inv.pipeline_type = "batch" /\ Started(inv)) =>
        /\ inv.signals = <<>>
        /\ (inv.job_id # <<>> \/ inv.pc \in {"upload", "finally", "returned"}) =>
             inv.process = "exited" /\ inv.read = Len(inv.lines)

C21_OutputOver(inv) ==
    /\ inv.pc # "off" /\ inv.pc # "ready"
    /\ inv.eof \/ (inv.pipeline_type = "streaming" /\ FirstIdLine(inv.lines) # 0)

\* C21: in streaming mode the tool reads the subprocess output line by line
\* and, at the first line that holds a job id, stops reading, terminates the
\* subprocess if it still runs (killing it when it has not exited within
\* the timeout) and returns a success report with that job id; when the
\* output ends without a job id it returns status 'error'.  In batch mode
\* the output is inspected only after the subprocess is over.  Once the
\* output ends or a job id is seen, the call eventually returns.
C21_ReadsUntilJobIdAndReturns ==
    /\ [](\A i \in Invocations :
            C21_StreamingStopsAtJobId(runner.inv[i]) /\ C21_BatchWaitsForCompletion(runner.inv[i]))
    /\ \A i \in Invocations : C21_OutputOver(runner.inv[i]) ~> (runner.inv[i].pc = "returned")

\* A streaming call whose script prints a job id on its first line and a
\* second line that is never read, and does not exit on SIGTERM.
C21_Witness ==
    \E i \in Invocations :
        LET inv == runner.inv[i]
        IN  /\ inv.pc = "returned" /\ inv.pipeline_type = "streaming"
            /\ Len(inv.lines) = 2 /\ inv.lines[1] # <<>> /\ inv.read = 1
            /\ inv.signals = <<"SIGTERM", "SIGKILL">>
            /\ inv.result.status = "success" /\ inv.result.job_id = inv.lines[1]

(***************************************************************************)
(* C22: the temporary script is gone after the call, also with two calls   *)
(* at once                                                                 *)
(***************************************************************************)
C22_ScriptGoneAfterReturn(i) ==
    runner.inv[i].pc = "returned" => runner.inv[i].temp_filename \notin runner.fs

C22_OwnScriptOnly(i) ==
    /\ runner.inv[i].wrote \cup runner.inv[i].removed \subseteq {runner.inv[i].temp_filename}
    /\ \A j \in Invocations \ {i} :
         runner.inv[j].temp_filename \notin runner.inv[i].wrote \cup runner.inv[i].removed

\* C22: after generate_and_run_beam_pipeline has returned, on every return
\* path, its temporary pipeline script does not exist; and of two concurrent
\* invocations neither writes nor deletes the other's temporary script.
C22_TempScriptRemoved ==
    \A i \in Invocations : C22_ScriptGoneAfterReturn(i) /\ C22_OwnScriptOnly(i)

\* One invocation has returned and removed its script while the script of
\* the other, which is still running, exists.
C22_Witness ==
    \E i, j \in Invocations :
        /\ i # j
        /\ runner.inv[i].pc = "returned"
        /\ runner.inv[i].wrote = {runner.inv[i].temp_filename}
        /\ runner.inv[i].removed = {runner.inv[i].temp_filename}
        /\ runner.inv[j].pc \in {"read", "communicate", "upload"}
        /\ runner.inv[j].temp_filename \in runner.fs

(***************************************************************************)
(* C23: which status the pipeline launcher returns                         *)
(***************************************************************************)
\* The call's arguments are ones the tool must refuse.
BadCall(inv) ==
    \/ inv.pipeline_type \notin {"batch", "streaming"}
    \/ inv.project_id = <<>> \/ inv.gcs_bucket_path = <<>>
    \/ ~StartsWith(inv.gcs_bucket_path, GsScheme)

NothingLaunchedOrWritten(inv) ==
    /\ inv.process = "none" /\ inv.command = NoPipelineCommand /\ inv.signals = <<>>
    /\ inv.wrote = {} /\ inv.temp_filename = <<>> /\ inv.blob = NoBlob

C23_StatusOf(inv) ==
    /\ BadCall(inv) => NothingLaunchedOrWritten(inv)
    /\ inv.pc = "returned" =>
         /\ BadCall(inv) => inv.result.status = "error"
         /\ Launched(inv) =>
              /\ inv.job_id # <<>> /\ inv.result.job_id = inv.job_id
              /\ \E k \in DOMAIN inv.lines : inv.lines[k] = inv.job_id
              /\ inv.pipeline_type = "batch" => inv.returncode = 0 /\ inv.process = "exited"
         /\ (inv.pipeline_type = "batch" /\ inv.process = "exited" /\ inv.returncode # 0) =>
              /\ inv.result.status = "error"
              /\ inv.result.text = "Failed to execute pipeline script.\n--- ERROR ---\n{e.output}"
         /\ (inv.pipeline_type = "batch" /\ inv.process = "exited" /\ inv.returncode = 0
                /\ FirstIdLine(inv.lines) = 0) =>
              /\ inv.result.status = "error"
              /\ inv.result.text = "Job launched, but could not find Job ID in output. Full output:\n{output}"

UploadTried(inv) == inv.upload # NoUpload

C24_UploadOutcome(inv) ==
    inv.pc = "returned" =>
        /\ (UploadTried(inv) /\ ~inv.upload.ok) =>
             /\ inv.job_id # <<>>
             /\ inv.result.status = "success_with_warning"
             /\ inv.result.job_id = inv.job_id
             /\ inv.result.gcs_script_path = <<>>
             /\ inv.blob = NoBlob
        /\ inv.result.status = "success" <=> (UploadTried(inv) /\ inv.upload.ok)
        /\ inv.result.status = "success" =>
             /\ inv.result.job_id = inv.job_id /\ inv.job_id # <<>>
             /\ inv.result.gcs_script_path = GsScheme \o inv.blob.bucket \o <<"/">> \o inv.blob.name
             /\ inv.blob.bucket # <<>> /\ inv.blob.name # <<>>
             /\ (inv.gcs_bucket_path = <<"g", "s", ":", "/", "/", "b", "k", "t", "/", "d", "i", "r", "/">> /\ inv.job_name # <<>>) =>
                  inv.result.gcs_script_path =
                      <<"g", "s", ":", "/", "/", "b", "k", "t", "/", "d", "i", "r", "/", "g", "e", "n", "e", "r", "a", "t", "e", "d", "_", "p", "i", "p", "e", "l", "i", "n", "e", "s", "/", "m", "y", "-", "j", "o", "b", "-">>
                      \o Prefix(inv.upload.uuid_hex, UuidPrefixLen) \o <<".", "p", "y">>

\* C24: when a job id was found and the upload of the script to GCS fails,
\* the status is 'success_with_warning', the report carries the job id and
\* gcs_script_path is null; the status is 'success' exactly when the upload
\* succeeded, and then gcs_script_path is the gs:// path the script was
\* written to.
C24_UploadFailureIsWarning == \A i \in Invocations : C24_UploadOutcome(runner.inv[i])

\* A launched job whose script could not be archived.
C24_Witness ==
    \E i \in Invocations :
        LET inv == runner.inv[i]
        IN  /\ inv.pc = "returned" /\ inv.job_id = JobIdB
            /\ UploadTried(inv) /\ ~inv.upload.ok
            /\ inv.result.status = "success_with_warning" /\ inv.result.job_id = JobIdB

(***************************************************************************)
(* C25: the command names the job the tool reports                         *)
(***************************************************************************)
\* The value that follows --key in the command, <<>> when the key is absent.
ArgValue(args, key) ==
    IF \E k \in DOMAIN args : args[k][1] = key
    THEN args[CHOOSE k \in DOMAIN args : args[k][1] = key][2]
    ELSE <<>>

C25_OwnArguments(inv) ==
    inv.command # NoPipelineCommand =>
        /\ ArgValue(inv.command.args, "job_name") = inv.sanitized_job_name
        /\ ArgValue(inv.command.args, "runner") = <<"DataflowRunner">>
        /\ ArgValue(inv.command.args, "project") = inv.project_id
        /\ ArgValue(inv.command.args, "region") = <<"us-central1">>
        /\ ArgValue(inv.command.args, "temp_location") = PathJoin(inv.gcs_bucket_path, <<"t", "e", "m", "p">>)
        /\ ArgValue(inv.command.args, "staging_location") = PathJoin(inv.gcs_bucket_path, <<"s", "t", "a", "g", "i", "n", "g">>)

\* C25: the --job_name argument of the subprocess command is always the
\* sanitized job name the tool reports, for every job_name and every
\* pipeline_args mapping, and runner, project, region, temp_location and
\* staging_location in the command are always the values derived from the
\* tool's own arguments.
C25_CommandUsesSanitizedName == \A i \in Invocations : C25_OwnArguments(runner.inv[i])

(***************************************************************************)
(* C26: the temporary template directory is gone after the call            *)
(***************************************************************************)
\* C26: when run_dataproc_template is called with a TRANSFORMATION_SQL, the
\* temporary template directory of the run does not exist once the call is
\* over, whether the run succeeded, start.sh failed or anything else went
\* wrong (also while the temporary copy was being made or rewritten).
C26_TempDirRemoved ==
    (template_run.called /\ template_run.TRANSFORMATION_SQL # "") => ~template_run.temp_dir

(***************************************************************************)
(* C27: the gcloud fallback of get_dataproc_job_logs_with_id               *)
(***************************************************************************)
\* C27: get_dataproc_job_logs_with_id queries Cloud Logging for the batch id
\* and runs 'gcloud dataproc jobs wait' only when that query gave no entry;
\* a non-zero exit of the command gives status 'success' with 'No log
\* entries found matching the criteria.', a zero exit a report with the
\* command's stderr and stdout, and when the command could not be run the
\* tool still returns a dict with status 'success' or 'error'.
C27_FallbackOnlyWithoutEntries ==
    logs.tool = "get_dataproc_job_logs_with_id" =>
        /\ logs.query.sent
        /\ logs.query.filter_[1] = TypeClause("cloud_dataproc_batch")
        /\ logs.fallback.ran <=> (logs.api_fails \/ logs.available = 0)
        /\ ~logs.fallback.ran =>
             /\ logs.result.status = "success" /\ logs.result.entries # <<>>
             /\ logs.fallback = NoFallback
        /\ (logs.fallback.ran /\ logs.fallback.started /\ logs.fallback.returncode # 0) =>
             /\ logs.result.status = "success"
             /\ logs.result.report = "No log entries found matching the criteria."
        /\ (logs.fallback.ran /\ logs.fallback.started /\ logs.fallback.returncode = 0) =>
             /\ logs.result.status = "success"
             /\ logs.result.report = "Fetched log entries: {stderr} {stdout}"
        /\ (logs.fallback.ran /\ ~logs.fallback.started) =>
             logs.result.status \in {"success", "error"}

\* The query gave nothing and the gcloud command exited with a non-zero
\* status.
C27_Witness ==
    /\ logs.tool = "get_dataproc_job_logs_with_id"
    /\ ~logs.api_fails /\ logs.available = 0
    /\ logs.fallback.ran /\ logs.fallback.started /\ logs.fallback.returncode # 0
    /\ logs.result.report = "No log entries found matching the criteria."

(***************************************************************************)
(* C28: for every input string _sanitize_bucket_name returns a name that   *)
(* _validate_bucket_name accepts (3 to 63 characters, first and last a     *)
(* lowercase letter or digit, only lowercase letters, digits, hyphens and  *)
(* underscores, no 'google'), and so upload_repository_to_gcs with an      *)
(* auto-generated bucket name never fails the bucket-name validation.      *)
(* The code does not do this: '' becomes '-repo', and 'google' stays.      *)
(***************************************************************************)
IsValidBucketName(bucket_name) ==
    /\ Len(bucket_name) >= 3 /\ Len(bucket_name) <= 63
    /\ bucket_name[1] \in LowerSet \cup DigitChars
    /\ bucket_name[Len(bucket_name)] \in LowerSet \cup DigitChars
    /\ \A i \in DOMAIN bucket_name : bucket_name[i] \in LowerSet \cup DigitChars \cup {"-", "_"}
    /\ ~Contains(bucket_name, <<"g", "o", "o", "g", "l", "e">>)

C28_SanitizedNameIsValid ==
    /\ storage.tool = "_sanitize_bucket_name"
         => storage.validation.valid /\ IsValidBucketName(storage.sanitized)
    /\ storage.tool = "upload_repository_to_gcs" /\ storage.validation # NoValidation
         => storage.validation.valid

(***************************************************************************)
(* C29: delete_gcs_bucket with force=True deletes every object of the      *)
(* bucket before it deletes the bucket, and attempts the bucket delete     *)
(* only if every object delete succeeded (a failed object delete returns   *)
(* status 'error' and leaves the bucket in place); with force=False no     *)
(* object is deleted, and a non-empty bucket yields status 'error' ('not   *)
(* empty') with the bucket and all its objects unchanged.  On success      *)
(* objects_deleted is the number of objects that were in the bucket.       *)
(***************************************************************************)
BucketDeleteCalls(bucket) == {k \in DOMAIN bucket.calls : bucket.calls[k].method = "bucket.delete"}

FailedObjectDeletes(bucket) ==
    {k \in DOMAIN bucket.calls : bucket.calls[k].method = "blob.delete" /\ ~bucket.calls[k].ok}

C29_ObjectsBeforeBucket(bucket) ==
    \A k \in BucketDeleteCalls(bucket) :
        /\ k = Len(bucket.calls)
        /\ bucket.force =>
             /\ \A j \in 1..(k - 1) : bucket.calls[j].method = "blob.delete" /\ bucket.calls[j].ok
             /\ [j \in 1..(k - 1) |-> bucket.calls[j].name] = bucket.initial
             /\ bucket.objects = <<>>

C29_FailedObjectDeleteKeepsBucket(bucket) ==
    FailedObjectDeletes(bucket) # {} =>
        /\ bucket.pc = "returned"
        /\ bucket.result.status = "error"
        /\ bucket.exists
        /\ BucketDeleteCalls(bucket) = {}

C29_WithoutForceNothingDeleted(bucket) ==
    ~bucket.force =>
        /\ bucket.objects = bucket.initial
        /\ \A k \in DOMAIN bucket.calls : bucket.calls[k].method = "bucket.delete"
        /\ bucket.initial # <<>> /\ BucketDeleteCalls(bucket) # {} =>
             /\ bucket.result.status = "error"
             /\ bucket.exists
             /\ \A k \in BucketDeleteCalls(bucket) : bucket.calls[k].error = "Conflict" =>
                  bucket.result.message = "Bucket '{bucket_name}' is not empty. Use force=True to delete all objects first."

C29_SuccessCountsObjects(bucket) ==
    bucket.pc = "returned" /\ bucket.result.status = "success" =>
        /\ bucket.result.objects_deleted = Len(bucket.initial)
        /\ ~bucket.exists
        /\ bucket.objects = <<>>

C29_ForceDeletesObjectsFirst ==
    storage.tool = "delete_gcs_bucket" =>
        /\ C29_ObjectsBeforeBucket(storage.bucket)
        /\ C29_FailedObjectDeleteKeepsBucket(storage.bucket)
        /\ C29_WithoutForceNothingDeleted(storage.bucket)
        /\ C29_SuccessCountsObjects(storage.bucket)

C29_Witness ==
    /\ storage.tool = "delete_gcs_bucket"
    /\ storage.bucket.force
    /\ Len(storage.bucket.initial) >= 2
    /\ storage.bucket.pc = "returned"
    /\ storage.bucket.result.status = "success"
    /\ storage.bucket.result.objects_deleted = Len(storage.bucket.initial)

(***************************************************************************)
(* C30: update_cluster issues no update request to the Dataproc API and    *)
(* leaves the cluster unchanged when num_workers is None (no API call at   *)
(* all) or equals the cluster's current worker count; an update request is *)
(* sent only when num_workers differs from the current count, and then its *)
(* update mask contains exactly 'config.worker_config.num_instances'.      *)
(***************************************************************************)
UpdateRequests == {k \in DOMAIN cluster.requests : cluster.requests[k].method = "update_cluster"}

C30_UpdateOnlyWhenWorkersDiffer ==
    cluster.called =>
        /\ cluster.num_workers.is_none =>
             cluster.requests = <<>> /\ cluster.workers = cluster.before
        /\ ~cluster.num_workers.is_none /\ cluster.num_workers.value = cluster.before =>
             UpdateRequests = {} /\ cluster.workers = cluster.before
        /\ \A k \in UpdateRequests :
             /\ ~cluster.num_workers.is_none
             /\ cluster.num_workers.value # cluster.before
             /\ cluster.requests[k].num_instances = cluster.num_workers.value
             /\ cluster.requests[k].update_mask = <<"config.worker_config.num_instances">>

C30_Witness ==
    /\ cluster.called
    /\ UpdateRequests # {}
    /\ cluster.workers = cluster.num_workers.value
    /\ cluster.workers # cluster.before
    /\ cluster.result.status = "success"

====
